---- MODULE Spec2Model ----
(***************************************************************************)
(* Trie persistence and orchestration layer of assetxchain:                *)
(*   KvdbHashDB / ChangeCollector  (node/src/kvdb_hashdb.rs)               *)
(*   AssetTrie facade              (node/src/mpt.rs)                       *)
(*   SimplifiedDualLayerMptManager (node/src/mpt_manager.rs)               *)
(* The trie algorithm the facade drives (trie_db's TrieDBMut / TrieDB over *)
(* reference_trie::NoExtensionLayout) is modelled at the level of its      *)
(* node store traffic: which (hash, prefix) pairs it reads, writes and     *)
(* removes.  Keys of one trie have one length (32-byte asset ids, 4-byte   *)
(* certificate ids), so branch nodes never carry a value.                  *)
(***************************************************************************)
EXTENDS Integers, Sequences, FiniteSets, TLC

(***************************************************************************)
(* Bounds of the model                                                     *)
(***************************************************************************)
MaxOps == 2
MaxBatch == 2
MaxManagerOps == 3
MaxNodeOps == 2

(***************************************************************************)
(* Keys, values, hashes                                                    *)
(***************************************************************************)
Nibbles == {0, 1}
Keys == {<<0, 0>>, <<0, 1>>, <<1, 0>>}

\* a short value (its leaf is inlined in the parent) and a long one (its
\* leaf is stored under its own hash)
SmallValue == [data |-> "s", len |-> 1]
LargeValue == [data |-> "L", len |-> 40]
Values == {SmallValue, LargeValue}

\* let v = ...; F(v)
Bind(v, F(_)) == F(v)

\* Option<T>
None == <<>>
Some(x) == <<x>>
IsSome(o) == o # <<>>
Unwrap(o) == o[1]

\* L::Hash::LENGTH, the width of TrieHash<Layout>
HashLength == 32

\* H::hash: content addressing, one digest per byte string
Hash(bytes) == [digest |-> bytes]
\* Default::default() of TrieHash: the all-zero digest, which no node hashes to
ZeroHash == [digest |-> [t |-> "zero"]]
\* the encoded empty node and L::Codec::hashed_null_node()
EmptyNode == [t |-> "empty"]
HashedNullNode == Hash(EmptyNode)

(***************************************************************************)
(* Encoded trie nodes (NoExtensionLayout: Leaf and NibbledBranch)          *)
(***************************************************************************)
Leaf(p, v) == [t |-> "leaf", partial |-> p, value |-> v]
Branch(p, ch) == [t |-> "branch", partial |-> p, children |-> ch]
NoChild == [c |-> "none"]
InlineRef(n) == [c |-> "inline", node |-> n]
HashRef(h) == [c |-> "hash", h |-> h]

RECURSIVE EncodedLen(_)
RefLen(c) ==
    IF c.c = "none" THEN 0
    ELSE IF c.c = "hash" THEN 1 + HashLength
    ELSE 1 + EncodedLen(c.node)

RECURSIVE SumRefLen(_, _)
SumRefLen(ch, idxs) ==
    IF idxs = {} THEN 0
    ELSE LET i == CHOOSE j \in idxs : TRUE
         IN RefLen(ch[i]) + SumRefLen(ch, idxs \ {i})

\* byte length of a node's encoding: header, partial key, (bitmap,) payload
EncodedLen(n) ==
    IF n.t = "leaf" THEN 2 + ((Len(n.partial) + 1) \div 2) + n.value.len
    ELSE IF n.t = "branch"
         THEN 3 + ((Len(n.partial) + 1) \div 2) + SumRefLen(n.children, Nibbles)
         ELSE 1

(***************************************************************************)
(* The physical store: column ASSET_DB_COL of the KeyValueDB, a map from   *)
(* physical key (prefix ++ hash) to bytes                                  *)
(***************************************************************************)
make_prefixed_key(prefix, key) == <<prefix, key>>
EMPTY_PREFIX == <<>>
EmptyMap == [k \in {} |-> None]

KvGet(kv, real_key) ==
    IF real_key \in DOMAIN kv THEN Some(kv[real_key]) ELSE None

\* a write transaction of puts, applied as a unit
KvWrite(kv, puts) ==
    LET newKeys == {w.key : w \in puts}
    IN [k \in DOMAIN kv \cup newKeys |->
            IF k \in newKeys THEN (CHOOSE w \in puts : w.key = k).value
            ELSE kv[k]]

\* KvdbHashDB::get
HashDBGet(cache, kv, key, prefix) ==
    IF key = ZeroHash THEN None
    ELSE LET real_key == make_prefixed_key(prefix, key)
         IN IF real_key \in DOMAIN cache THEN Some(cache[real_key])
            ELSE KvGet(kv, real_key)

\* KvdbHashDB::contains
HashDBContains(cache, kv, key, prefix) == IsSome(HashDBGet(cache, kv, key, prefix))

\* a faulty variant: the store is asked first
CollectorGetStoreFirst(changes, kv, key, prefix) ==
    LET real_key == make_prefixed_key(prefix, key)
    IN IF IsSome(KvGet(kv, real_key)) THEN KvGet(kv, real_key)
       ELSE IF real_key \in DOMAIN changes THEN changes[real_key]
       ELSE None

\* ChangeCollector::get
CollectorGet(changes, kv, key, prefix) ==
    LET real_key == make_prefixed_key(prefix, key)
    IN IF real_key \in DOMAIN changes THEN changes[real_key]
       ELSE KvGet(kv, real_key)


(***************************************************************************)
(* trie_db::TrieDBMut as the facade uses it.  A node handle is a hash not  *)
(* yet loaded, or a node in memory that is new or cached under its hash.   *)
(* `mem` tells which HashDB backs the session: the throwaway MemoryDB      *)
(* (HashKey: the prefix is ignored, the null node is always present) or    *)
(* the ChangeCollector over the physical store.                            *)
(***************************************************************************)
HashHandle(h) == [m |-> "hash", h |-> h]
MemNew(n) == [m |-> "new", node |-> n]
MemCached(n, h) == [m |-> "cached", node |-> n, h |-> h]
NoHandle == [m |-> "none"]

RECURSIVE Decode(_)
\* Node::from_encoded: inline children become new in-memory nodes
Decode(n) ==
    IF n.t = "branch"
    THEN [t |-> "branch", partial |-> n.partial,
          children |-> [i \in Nibbles |->
              LET c == n.children[i]
              IN IF c.c = "none" THEN NoHandle
                 ELSE IF c.c = "hash" THEN HashHandle(c.h)
                 ELSE MemNew(Decode(c.node))]]
    ELSE n

RECURSIVE CommonPrefix(_, _)
CommonPrefix(a, b) ==
    IF a = <<>> \/ b = <<>> THEN 0
    ELSE IF Head(a) = Head(b) THEN 1 + CommonPrefix(Tail(a), Tail(b))
    ELSE 0

From(s, i) == SubSeq(s, i, Len(s))

\* the session's db.get(hash, prefix)
SessionGet(kv, mem, key, prefix) ==
    IF mem THEN (IF key = HashedNullNode THEN Some(EmptyNode) ELSE None)
    ELSE CollectorGet(EmptyMap, kv, key, prefix)

\* TrieDBMut::cache: load a node by hash, IncompleteDatabase when it is absent
cache(kv, mem, handle, prefix) ==
    IF handle.m = "hash"
    THEN LET g == SessionGet(kv, mem, handle.h, prefix)
         IN IF IsSome(g) THEN [ok |-> TRUE, st |-> MemCached(Decode(Unwrap(g)), handle.h)]
            ELSE [ok |-> FALSE, st |-> NoHandle]
    ELSE [ok |-> TRUE, st |-> handle]

OpErr == [err |-> TRUE, h |-> NoHandle, changed |-> FALSE, death |-> {}]

\* TrieDBMut::inspect: what becomes of a stored node under an Action
inspect(st, action, node, prefix, death) ==
    LET dead == IF st.m = "cached" THEN {<<prefix, st.h>>} ELSE {}
    IN IF action = "restore"
       THEN [err |-> FALSE,
             h |-> IF st.m = "cached" THEN MemCached(node, st.h) ELSE MemNew(node),
             changed |-> FALSE, death |-> death]
       ELSE IF action = "replace"
       THEN [err |-> FALSE, h |-> MemNew(node), changed |-> TRUE, death |-> death \cup dead]
       ELSE [err |-> FALSE, h |-> NoHandle, changed |-> TRUE, death |-> death \cup dead]

\* a branch holding the old node under nibble a and a new leaf for the key
SplitBranch(common, a, low, partial, value) ==
    Branch(SubSeq(partial, 1, common),
           [i \in Nibbles |->
               IF i = a THEN MemNew(low)
               ELSE IF i = partial[common + 1]
                    THEN MemNew(Leaf(From(partial, common + 2), value))
                    ELSE NoHandle])

RECURSIVE insert_at(_, _, _, _, _, _)
\* TrieDBMut::insert_at with insert_inspector; prefix is the path consumed so
\* far, partial the rest of the key
insert_at(kv, mem, handle, prefix, partial, value) ==
    Bind(cache(kv, mem, handle, prefix), LAMBDA r :
    IF ~r.ok THEN OpErr
    ELSE
    LET st == r.st
        node == r.st.node
        common == IF r.st.node.t = "empty" THEN 0
                  ELSE CommonPrefix(partial, r.st.node.partial)
    IN IF node.t = "empty"
       THEN inspect(st, "replace", Leaf(partial, value), prefix, {})
       ELSE IF node.t = "leaf"
       THEN IF common = Len(node.partial) /\ common = Len(partial)
            THEN IF node.value = value
                 THEN inspect(st, "restore", node, prefix, {})
                 ELSE inspect(st, "replace", Leaf(node.partial, value), prefix, {})
            ELSE inspect(st, "replace",
                         SplitBranch(common, node.partial[common + 1],
                                     Leaf(From(node.partial, common + 2), node.value),
                                     partial, value),
                         prefix, {})
       ELSE IF common < Len(node.partial)
       THEN inspect(st, "replace",
                    SplitBranch(common, node.partial[common + 1],
                                Branch(From(node.partial, common + 2), node.children),
                                partial, value),
                    prefix, {})
       ELSE LET idx == partial[common + 1]
                child == node.children[idx]
            IN IF child.m = "none"
               THEN inspect(st, "replace",
                            Branch(node.partial,
                                   [node.children EXCEPT
                                       ![idx] = MemNew(Leaf(From(partial, common + 2), value))]),
                            prefix, {})
               ELSE Bind(insert_at(kv, mem, child,
                                   prefix \o SubSeq(partial, 1, common + 1),
                                   From(partial, common + 2), value),
                         LAMBDA sub :
                         IF sub.err THEN OpErr
                         ELSE inspect(st, IF sub.changed THEN "replace" ELSE "restore",
                                      Branch(node.partial,
                                             [node.children EXCEPT ![idx] = sub.h]),
                                      prefix, sub.death)))

\* TrieDBMut::fix: a branch left with one child merges with that child, which
\* it loads (under the child's prefix) when it is only known by hash
fix(kv, mem, node, prefix, death) ==
    LET used == {i \in Nibbles : node.children[i].m # "none"}
        a == CHOOSE i \in used : TRUE
        child_prefix == prefix \o node.partial \o <<a>>
    IN IF Cardinality(used) = 1
       THEN Bind(cache(kv, mem, node.children[a], child_prefix), LAMBDA r :
            IF ~r.ok THEN [err |-> TRUE, node |-> node, death |-> death]
            ELSE LET cn == r.st.node
                     dead == IF r.st.m = "cached" THEN {<<child_prefix, r.st.h>>} ELSE {}
                     joined == node.partial \o <<a>> \o cn.partial
                 IN [err |-> FALSE,
                     node |-> IF cn.t = "leaf" THEN Leaf(joined, cn.value)
                              ELSE Branch(joined, cn.children),
                     death |-> death \cup dead])
       ELSE [err |-> FALSE, node |-> node, death |-> death]

RECURSIVE remove_at(_, _, _, _, _)
\* TrieDBMut::remove_at with remove_inspector; h = NoHandle: the node is deleted
remove_at(kv, mem, handle, prefix, partial) ==
    Bind(cache(kv, mem, handle, prefix), LAMBDA r :
    IF ~r.ok THEN OpErr
    ELSE
    LET st == r.st
        node == r.st.node
        common == IF r.st.node.t = "empty" THEN 0
                  ELSE CommonPrefix(partial, r.st.node.partial)
    IN IF node.t = "empty"
       THEN inspect(st, "delete", node, prefix, {})
       ELSE IF node.t = "leaf"
       THEN IF node.partial = partial
            THEN inspect(st, "delete", node, prefix, {})
            ELSE inspect(st, "restore", node, prefix, {})
       ELSE IF common < Len(node.partial) \/ common = Len(partial)
       THEN inspect(st, "restore", node, prefix, {})
       ELSE LET idx == partial[common + 1]
                child == node.children[idx]
            IN IF child.m = "none"
               THEN inspect(st, "restore", node, prefix, {})
               ELSE Bind(remove_at(kv, mem, child,
                                   prefix \o SubSeq(partial, 1, common + 1),
                                   From(partial, common + 2)),
                         LAMBDA sub :
                         IF sub.err THEN OpErr
                         ELSE IF sub.h.m # "none"
                         THEN inspect(st, IF sub.changed THEN "replace" ELSE "restore",
                                      Branch(node.partial,
                                             [node.children EXCEPT ![idx] = sub.h]),
                                      prefix, sub.death)
                         ELSE Bind(fix(kv, mem,
                                       Branch(node.partial,
                                              [node.children EXCEPT ![idx] = NoHandle]),
                                       prefix, sub.death),
                                   LAMBDA f :
                                   IF f.err THEN OpErr
                                   ELSE inspect(st, "replace", f.node, prefix, f.death))))

\* a TrieDBMut session: root handle, death row, and whether an operation failed
\* TrieDBMutBuilder::new: the root is the hashed null node
NewSession == [root |-> HashHandle(HashedNullNode), death |-> {}, err |-> FALSE]
\* TrieDBMutBuilder::from_existing
ExistingSession(root) == [root |-> HashHandle(root), death |-> {}, err |-> FALSE]

\* TrieMut::insert
TrieInsert(kv, mem, s, key, value) ==
    IF s.err THEN s
    ELSE Bind(insert_at(kv, mem, s.root, EMPTY_PREFIX, key, value), LAMBDA r :
              IF r.err THEN [s EXCEPT !.err = TRUE]
              ELSE [root |-> r.h, death |-> s.death \cup r.death, err |-> FALSE])

\* TrieMut::remove: a trie left without keys is rooted at the hashed null node
TrieRemove(kv, mem, s, key) ==
    IF s.err THEN s
    ELSE Bind(remove_at(kv, mem, s.root, EMPTY_PREFIX, key), LAMBDA r :
              IF r.err THEN [s EXCEPT !.err = TRUE]
              ELSE [root |-> IF r.h.m = "none" THEN HashHandle(HashedNullNode) ELSE r.h,
                    death |-> s.death \cup r.death, err |-> FALSE])

RECURSIVE InsertAll(_, _, _, _)
\* for (k, v) in items { trie.insert(&k, &v)?; }
InsertAll(kv, mem, s, items) ==
    IF items = <<>> THEN s
    ELSE InsertAll(kv, mem, TrieInsert(kv, mem, s, Head(items)[1], Head(items)[2]), Tail(items))

RECURSIVE RemoveAll(_, _, _, _)
\* for k in deletes { trie.remove(&k)?; }
RemoveAll(kv, mem, s, keys) ==
    IF keys = <<>> THEN s
    ELSE RemoveAll(kv, mem, TrieRemove(kv, mem, s, Head(keys)), Tail(keys))

RECURSIVE commit_child(_, _)
RECURSIVE EncodeNode(_, _)
\* Node::into_encoded: children are committed under prefix ++ partial ++ index
EncodeNode(node, prefix) ==
    IF node.t = "branch"
    THEN Bind([i \in Nibbles |->
                  commit_child(node.children[i], prefix \o node.partial \o <<i>>)],
              LAMBDA cc :
              [node |-> Branch(node.partial, [i \in Nibbles |-> cc[i].ref]),
               writes |-> UNION {cc[i].writes : i \in Nibbles}])
    ELSE [node |-> node, writes |-> {}]

\* TrieDBMut::commit_child: a new node of HashLength bytes or more is inserted
\* under its prefix and referenced by hash, a shorter one is inlined
commit_child(handle, prefix) ==
    IF handle.m = "none" THEN [ref |-> NoChild, writes |-> {}]
    ELSE IF handle.m \in {"hash", "cached"} THEN [ref |-> HashRef(handle.h), writes |-> {}]
    ELSE Bind(EncodeNode(handle.node, prefix), LAMBDA e :
              IF EncodedLen(e.node) >= HashLength
              THEN [ref |-> HashRef(Hash(e.node)),
                    writes |-> e.writes \cup
                        {[key |-> make_prefixed_key(prefix, Hash(e.node)), value |-> e.node]}]
              ELSE [ref |-> InlineRef(e.node), writes |-> e.writes])

\* TrieDBMut::commit (on drop): the death row is removed, the new nodes are
\* inserted, the root is written under the empty prefix; `err` carries the
\* session's failure
commit(s) ==
    IF s.root.m \in {"hash", "cached"}
    THEN [root |-> s.root.h, writes |-> {}, removes |-> s.death, err |-> s.err]
    ELSE Bind(EncodeNode(s.root.node, EMPTY_PREFIX), LAMBDA e :
              [root |-> Hash(e.node),
               writes |-> e.writes \cup
                   {[key |-> make_prefixed_key(EMPTY_PREFIX, Hash(e.node)), value |-> e.node]},
               removes |-> s.death, err |-> s.err])

(***************************************************************************)
(* trie_db::TrieDB over a KvdbHashDB: get and the full-scan iterator       *)
(***************************************************************************)
OkResult(o) == [ok |-> TRUE, val |-> o]
ErrResult == [ok |-> FALSE, val |-> None]

RECURSIVE look_up(_, _, _, _)
look_up(kv, node, prefix, partial) ==
    IF node.t = "leaf"
    THEN IF node.partial = partial THEN OkResult(Some(node.value)) ELSE OkResult(None)
    ELSE IF node.t = "branch"
    THEN LET common == CommonPrefix(partial, node.partial)
         IN IF common < Len(node.partial) \/ common = Len(partial)
            THEN OkResult(None)
            ELSE LET c == node.children[partial[common + 1]]
                     child_prefix == prefix \o SubSeq(partial, 1, common + 1)
                     rest == From(partial, common + 2)
                 IN IF c.c = "none" THEN OkResult(None)
                    ELSE IF c.c = "inline" THEN look_up(kv, c.node, child_prefix, rest)
                    ELSE LET g == HashDBGet(EmptyMap, kv, c.h, child_prefix)
                         IN IF IsSome(g) THEN look_up(kv, Unwrap(g), child_prefix, rest)
                            ELSE ErrResult
    ELSE OkResult(None)

\* TrieDBBuilder::new(&hashdb, &root).build().get(key)
TrieDBGet(kv, root, key) ==
    LET g == HashDBGet(EmptyMap, kv, root, EMPTY_PREFIX)
    IN IF IsSome(g) THEN look_up(kv, Unwrap(g), EMPTY_PREFIX, key) ELSE ErrResult

RECURSIVE IterNode(_, _, _)
\* the iterator's items that are Ok: a subtree whose node is missing yields
\* an Err item and is skipped
IterNode(kv, node, prefix) ==
    IF node.t = "leaf" THEN {<<prefix \o node.partial, node.value>>}
    ELSE IF node.t = "branch"
    THEN UNION {
            LET c == node.children[i]
                child_prefix == prefix \o node.partial \o <<i>>
            IN IF c.c = "none" THEN {}
               ELSE IF c.c = "inline" THEN IterNode(kv, c.node, child_prefix)
               ELSE LET g == HashDBGet(EmptyMap, kv, c.h, child_prefix)
                    IN IF IsSome(g) THEN IterNode(kv, Unwrap(g), child_prefix) ELSE {}
            : i \in Nibbles }
    ELSE {}


(***************************************************************************)
(* HashMap<Vec<u8>, Vec<u8>> helpers                                       *)
(***************************************************************************)
MapOfPairs(pairs) ==
    [k \in {p[1] : p \in pairs} |-> (CHOOSE p \in pairs : p[1] = k)[2]]

MapRemove(m, key) == [k \in DOMAIN m \ {key} |-> m[k]]
MapInsert(m, key, value) ==
    [k \in DOMAIN m \cup {key} |-> IF k = key THEN value ELSE m[k]]

RECURSIVE MapRemoveAll(_, _)
MapRemoveAll(m, keys) ==
    IF keys = <<>> THEN m ELSE MapRemoveAll(MapRemove(m, Head(keys)), Tail(keys))

RECURSIVE MapInsertAll(_, _)
MapInsertAll(m, items) ==
    IF items = <<>> THEN m
    ELSE MapInsertAll(MapInsert(m, Head(items)[1], Head(items)[2]), Tail(items))

RECURSIVE MapItems(_)
\* the map's entries in iteration order
MapItems(m) ==
    IF DOMAIN m = {} THEN <<>>
    ELSE LET k == CHOOSE x \in DOMAIN m : TRUE
         IN <<<<k, m[k]>>>> \o MapItems(MapRemove(m, k))

(***************************************************************************)
(* ChangeCollector: the pending change set and its flush                   *)
(***************************************************************************)
\* the collector's `changes` once the session is dropped: the death row is
\* recorded as None, then every inserted node as Some
CollectedChanges(c) ==
    LET writeKeys == {w.key : w \in c.writes}
    IN [k \in c.removes \cup writeKeys |->
            IF k \in writeKeys THEN Some((CHOOSE w \in c.writes : w.key = k).value)
            ELSE None]

\* ChangeCollector::change_stats, its first component
change_stats(changes) == Cardinality({k \in DOMAIN changes : IsSome(changes[k])})

\* a faulty variant: a failed transaction has still put its entries
apply_changes_torn(changes, kv, preserve_history, fail) ==
    IF DOMAIN changes = {} THEN [ok |-> TRUE, kv |-> kv, wfail |-> FALSE]
    ELSE LET put == {k \in DOMAIN changes : IsSome(changes[k])}
         IN [ok |-> ~fail,
             kv |-> [k \in DOMAIN kv \cup put |->
                        IF k \in put THEN Unwrap(changes[k]) ELSE kv[k]],
             wfail |-> fail]

\* a faulty variant: None entries are deleted whatever the history mode
apply_changes_deleting(changes, kv, preserve_history, fail) ==
    IF DOMAIN changes = {} THEN [ok |-> TRUE, kv |-> kv, wfail |-> FALSE]
    ELSE IF fail THEN [ok |-> FALSE, kv |-> kv, wfail |-> TRUE]
    ELSE LET deleted == {k \in DOMAIN changes : ~IsSome(changes[k])}
             put == {k \in DOMAIN changes : IsSome(changes[k])}
         IN [ok |-> TRUE,
             kv |-> [k \in (DOMAIN kv \ deleted) \cup put |->
                        IF k \in put THEN Unwrap(changes[k]) ELSE kv[k]],
             wfail |-> FALSE]

\* ChangeCollector::apply_changes: one transaction; a None entry is a delete
\* unless preserve_history; `fail` is the outcome of kv.write
apply_changes(changes, kv, preserve_history, fail) ==
    IF DOMAIN changes = {} THEN [ok |-> TRUE, kv |-> kv, wfail |-> FALSE]
    ELSE IF fail THEN [ok |-> FALSE, kv |-> kv, wfail |-> TRUE]
    ELSE LET deleted == IF preserve_history THEN {}
                        ELSE {k \in DOMAIN changes : ~IsSome(changes[k])}
             put == {k \in DOMAIN changes : IsSome(changes[k])}
         IN [ok |-> TRUE,
             kv |-> [k \in (DOMAIN kv \ deleted) \cup put |->
                        IF k \in put THEN Unwrap(changes[k]) ELSE kv[k]],
             wfail |-> FALSE]

(***************************************************************************)
(* AssetTrie (mpt.rs)                                                      *)
(***************************************************************************)
is_empty_root(root) == root = ZeroHash

\* the result of a facade call: Ok(new root) or Err, the store afterwards,
\* whether a store write failed, the nodes the call's session produced, and
\* the return statement the call left through
\* a faulty variant: the error path leaves the facade at the zero root
CallErrReset(root, kv, wfail) ==
    [ok |-> FALSE, root |-> ZeroHash, kv |-> kv, wfail |-> wfail, pending |-> {},
     path |-> "err"]

CallErr(root, kv, wfail) ==
    [ok |-> FALSE, root |-> root, kv |-> kv, wfail |-> wfail, pending |-> {},
     path |-> "err"]
CallOk(root, kv, pending, path) ==
    [ok |-> TRUE, root |-> root, kv |-> kv, wfail |-> FALSE, pending |-> pending,
     path |-> path]

\* MemoryDB<HashKey>: nodes keyed by hash alone
MemoryDB(c) == {[hash |-> w.key[2], value |-> w.value] : w \in c.writes}

\* a faulty variant: the buffer is reported written, the transaction never sent
write_memdb_unsent(kv, memdb, fail) ==
    IF fail THEN [ok |-> FALSE, kv |-> kv, puts |-> {}]
    ELSE [ok |-> TRUE, kv |-> kv,
          puts |-> {[key |-> make_prefixed_key(EMPTY_PREFIX, e.hash), value |-> e.value]
                      : e \in memdb}]

\* AssetTrie::write_memdb_with_correct_format: every node of the buffer is
\* put under make_prefixed_key((&[], None), hash)
write_memdb_with_correct_format(kv, memdb, fail) ==
    IF fail THEN [ok |-> FALSE, kv |-> kv, puts |-> {}]
    ELSE LET puts == {[key |-> make_prefixed_key(EMPTY_PREFIX, e.hash), value |-> e.value]
                        : e \in memdb}
         IN [ok |-> TRUE, kv |-> KvWrite(kv, puts), puts |-> puts]

\* AssetTrie::get
get(kv, root, key) ==
    IF is_empty_root(root) THEN OkResult(None) ELSE TrieDBGet(kv, root, key)

\* AssetTrie::contains: Ok(self.get(key)?.is_some())
contains(kv, root, key) ==
    LET g == get(kv, root, key)
    IN IF g.ok THEN OkResult(IsSome(g.val)) ELSE g

\* AssetTrie::iter_all: Err items of the iterator are dropped, and so is
\* everything when the iterator cannot be built
iter_all(kv, root) ==
    IF is_empty_root(root) THEN EmptyMap
    ELSE LET g == HashDBGet(EmptyMap, kv, root, EMPTY_PREFIX)
         IN IF IsSome(g) THEN MapOfPairs(IterNode(kv, Unwrap(g), EMPTY_PREFIX))
            ELSE EmptyMap

\* AssetTrie::create_new_tree
create_new_tree(kv, root, items, fail) ==
    Bind(commit(InsertAll(kv, TRUE, NewSession, items)), LAMBDA c :
    Bind(write_memdb_with_correct_format(kv, MemoryDB(c), fail), LAMBDA w :
         IF c.err THEN CallErr(root, kv, FALSE)
         ELSE IF ~w.ok THEN CallErr(root, kv, TRUE)
         ELSE CallOk(c.root, w.kv, w.puts, "new_tree")))

\* AssetTrie::fallback_update
fallback_update(kv, root, inserts, deletes, fail) ==
    Bind(MapInsertAll(MapRemoveAll(iter_all(kv, root), deletes), inserts),
         LAMBDA current_data :
    Bind(commit(InsertAll(kv, TRUE, NewSession, MapItems(current_data))), LAMBDA c :
    Bind(write_memdb_with_correct_format(kv, MemoryDB(c), fail), LAMBDA w :
         IF DOMAIN current_data = {} THEN CallOk(ZeroHash, kv, {}, "fallback")
         ELSE IF c.err THEN CallErr(root, kv, FALSE)
         ELSE IF ~w.ok THEN CallErr(root, kv, TRUE)
         ELSE CallOk(c.root, w.kv, w.puts, "fallback"))))

\* a faulty variant: the session without its delete loop
CollectorSessionInsertsOnly(kv, root, inserts, deletes) ==
    InsertAll(kv, FALSE, ExistingSession(root), inserts)

\* the ChangeCollector session of incremental_update: inserts, then deletes
CollectorSession(kv, root, inserts, deletes) ==
    RemoveAll(kv, FALSE, InsertAll(kv, FALSE, ExistingSession(root), inserts), deletes)

\* AssetTrie::incremental_update
incremental_update(kv, root, inserts, deletes, fail) ==
    Bind(iter_all(kv, root), LAMBDA current_data :
    Bind(commit(CollectorSession(kv, root, inserts, deletes)), LAMBDA c :
    Bind(CollectedChanges(c), LAMBDA changes :
    Bind(apply_changes(changes, kv, TRUE, fail), LAMBDA a :
         IF ~HashDBContains(EmptyMap, kv, root, EMPTY_PREFIX) THEN CallErr(root, kv, FALSE)
         ELSE IF /\ deletes # <<>> /\ inserts = <<>> /\ Len(deletes) = 1
                 /\ Cardinality(DOMAIN current_data) = 1
                 /\ deletes[1] \in DOMAIN current_data
         THEN CallOk(ZeroHash, kv, {}, "only_key")
         ELSE IF c.err THEN CallErr(root, kv, FALSE)
         ELSE IF change_stats(changes) = 0 /\ c.root # root
         THEN fallback_update(kv, root, inserts, deletes, fail)
         ELSE IF ~a.ok THEN CallErr(root, kv, a.wfail)
         ELSE IF c.root # ZeroHash /\ ~HashDBContains(EmptyMap, a.kv, c.root, EMPTY_PREFIX)
         THEN fallback_update(a.kv, root, inserts, deletes, fail)
         ELSE CallOk(IF c.root = ZeroHash THEN ZeroHash ELSE c.root, a.kv, c.writes,
                     "collector")))))

\* AssetTrie::batch_insert
batch_insert(kv, root, items, fail) ==
    IF items = <<>> THEN CallOk(root, kv, {}, "noop")
    ELSE IF is_empty_root(root) THEN create_new_tree(kv, root, items, fail)
    ELSE incremental_update(kv, root, items, <<>>, fail)

\* AssetTrie::insert
insert(kv, root, key, value, fail) == batch_insert(kv, root, <<<<key, value>>>>, fail)

\* a faulty variant: an empty tree is updated like any other
batch_remove_unguarded(kv, root, keys, fail) ==
    IF keys = <<>> THEN CallOk(root, kv, {}, "noop")
    ELSE incremental_update(kv, root, <<>>, keys, fail)

\* AssetTrie::batch_remove
batch_remove(kv, root, keys, fail) ==
    IF keys = <<>> THEN CallOk(root, kv, {}, "noop")
    ELSE IF is_empty_root(root) THEN CallOk(root, kv, {}, "noop")
    ELSE incremental_update(kv, root, <<>>, keys, fail)

\* AssetTrie::remove
remove(kv, root, key, fail) == batch_remove(kv, root, <<key>>, fail)

\* AssetTrie::batch_update
batch_update(kv, root, inserts, deletes, fail) ==
    IF inserts = <<>> /\ deletes = <<>> THEN CallOk(root, kv, {}, "noop")
    ELSE IF is_empty_root(root) /\ deletes # <<>> THEN create_new_tree(kv, root, inserts, fail)
    ELSE IF is_empty_root(root) THEN create_new_tree(kv, root, inserts, fail)
    ELSE incremental_update(kv, root, inserts, deletes, fail)


(***************************************************************************)
(* State.  kv is the physical store (one column).  root is the root of the *)
(* AssetTrie under call: the facade itself, or the manager's               *)
(* main_asset_tree.  The other manager fields keep their names.            *)
(* `returned` holds the roots that successful facade calls handed out,     *)
(* `last` the kind and outcome of the latest call, `ops` counts calls.     *)
(***************************************************************************)
VARIABLES kv, root, returned, last, ops,
          certificate_trees, current_main_root, certificate_roots,
          token_id_to_asset_id, next_token_id,
          hashdb_cache, changes, preserve_history,
          reader, threads, sub_trie_roots, issued_ids

facadeVars == <<kv, root, returned, last, ops>>
managerVars == <<certificate_trees, current_main_root, certificate_roots,
                 token_id_to_asset_id, next_token_id>>
\* a long-lived KvdbHashDB's cache and a ChangeCollector's fields
nodeVars == <<hashdb_cache, changes, preserve_history>>
\* a concurrent reader's AssetTrie::get in progress, and the callers of the
\* shared manager: each one's position in its call and its local variables
concVars == <<reader, threads>>
\* history: for each asset, the roots its certificate sub-trie has had
historyVars == <<sub_trie_roots, issued_ids>>
auxVars == <<nodeVars, concVars, historyVars>>
vars == <<facadeVars, managerVars, auxVars>>

ThreadIds == {"t1", "t2"}
IdleThread == [pc |-> "idle"]

(***************************************************************************)
(* The facade as a state machine: AssetTrie instances over one physical    *)
(* store.  Every public call is one step.                                  *)
(***************************************************************************)
Items == Keys \X Values
SeqsUpTo(S, n) == UNION {[1..m -> S] : m \in 0..n}
ItemLists == SeqsUpTo(Items, MaxBatch)
KeyLists == SeqsUpTo(Keys, MaxBatch)
\* a batch_update carries at most MaxBatch entries in all
UpdateArgs == {a \in ItemLists \X KeyLists : Len(a[1]) + Len(a[2]) <= MaxBatch}

\* SimplifiedDualLayerMptManager::new: every index empty, every root zero
ManagerInit ==
    /\ certificate_trees = EmptyMap
    /\ current_main_root = ZeroHash
    /\ certificate_roots = EmptyMap
    /\ token_id_to_asset_id = EmptyMap
    /\ next_token_id = 0

\* no adapter or collector outlives a facade call: KvdbHashDB::new and
\* ChangeCollector::new values as constructed
NodeIdle ==
    /\ hashdb_cache = EmptyMap
    /\ changes = EmptyMap
    /\ preserve_history = TRUE
    /\ reader = [pc |-> "idle"]
    /\ threads = [t \in ThreadIds |-> IdleThread]

\* AssetTrie::new(db, Default::default()) on an empty store
Init ==
    /\ kv = EmptyMap
    /\ root = ZeroHash
    /\ returned = {}
    /\ last = [op |-> "new", ok |-> TRUE, wfail |-> FALSE, path |-> "new",
               changed |-> FALSE]
    /\ ops = 0
    /\ ManagerInit
    /\ NodeIdle
    /\ sub_trie_roots = EmptyMap
    /\ issued_ids = EmptyMap

\* a mutating call returned r: Ok(r.root) advances the root, Err leaves it
Call(op, r) ==
    /\ ops < MaxOps
    /\ ops' = ops + 1
    /\ kv' = r.kv
    /\ root' = r.root
    /\ returned' = IF r.ok THEN returned \cup {r.root} ELSE returned
    /\ last' = [op |-> op, ok |-> r.ok, wfail |-> r.wfail, path |-> r.path,
                changed |-> r.root # root]
    /\ UNCHANGED <<managerVars, auxVars>>

Insert ==
    \E k \in Keys, v \in Values, fail \in BOOLEAN :
        Call("insert", insert(kv, root, k, v, fail))

Remove ==
    \E k \in Keys, fail \in BOOLEAN :
        Call("remove", remove(kv, root, k, fail))

BatchInsert ==
    \E items \in ItemLists, fail \in BOOLEAN :
        Call("batch_insert", batch_insert(kv, root, items, fail))

BatchRemove ==
    \E keys \in KeyLists, fail \in BOOLEAN :
        Call("batch_remove", batch_remove(kv, root, keys, fail))

BatchUpdate ==
    \E a \in UpdateArgs, fail \in BOOLEAN :
        Call("batch_update", batch_update(kv, root, a[1], a[2], fail))

\* AssetTrie::new(db, r) / set_root(r) with a root handed out earlier: another
\* facade over the same store
Reopen ==
    \E r \in returned \cup {ZeroHash} :
        /\ r # root
        /\ root' = r
        /\ last' = [op |-> "new", ok |-> TRUE, wfail |-> FALSE, path |-> "new",
                    changed |-> FALSE]
        /\ UNCHANGED <<kv, returned, ops>>
        /\ UNCHANGED <<managerVars, auxVars>>

Next == Insert \/ Remove \/ BatchInsert \/ BatchRemove \/ BatchUpdate \/ Reopen

Spec == Init /\ [][Next]_vars


(***************************************************************************)
(* A reader beside the writer: AssetTrie::get on another facade over the   *)
(* same store, one store read per step, while the facade under call        *)
(* mutates.  A writer's call is one step: its only effect a reader can see *)
(* is its write transaction.                                               *)
(***************************************************************************)
RECURSIVE walk(_, _, _)
\* Lookup::look_up from a loaded node up to its next store read: the value,
\* or the hash and prefix to fetch next
walk(node, prefix, partial) ==
    IF node.t = "leaf"
    THEN [done |-> TRUE,
          result |-> IF node.partial = partial THEN OkResult(Some(node.value))
                     ELSE OkResult(None)]
    ELSE IF node.t = "branch"
    THEN LET common == CommonPrefix(partial, node.partial)
         IN IF common < Len(node.partial) \/ common = Len(partial)
            THEN [done |-> TRUE, result |-> OkResult(None)]
            ELSE LET c == node.children[partial[common + 1]]
                     child_prefix == prefix \o SubSeq(partial, 1, common + 1)
                     rest == From(partial, common + 2)
                 IN IF c.c = "none" THEN [done |-> TRUE, result |-> OkResult(None)]
                    ELSE IF c.c = "inline" THEN walk(c.node, child_prefix, rest)
                    ELSE [done |-> FALSE, hash |-> c.h, prefix |-> child_prefix,
                          partial |-> rest]
    ELSE [done |-> TRUE, result |-> OkResult(None)]

ReaderDone(r, key, result) == [pc |-> "done", root |-> r, key |-> key, result |-> result]

\* AssetTrie::new(db, r).get(key) begins, r a root handed out earlier
ReaderStart ==
    /\ reader.pc = "idle"
    /\ \E r \in returned \cup {ZeroHash}, key \in Keys :
          reader' = IF is_empty_root(r) THEN ReaderDone(r, key, OkResult(None))
                    ELSE [pc |-> "fetch", root |-> r, key |-> key, hash |-> r,
                          prefix |-> EMPTY_PREFIX, partial |-> key]
    /\ UNCHANGED <<facadeVars, managerVars, nodeVars, threads, historyVars>>

\* one KvdbHashDB::get of the lookup, and the walk to the next one
ReaderStep ==
    /\ reader.pc = "fetch"
    /\ LET g == HashDBGet(EmptyMap, kv, reader.hash, reader.prefix)
       IN IF ~IsSome(g)
          THEN reader' = ReaderDone(reader.root, reader.key, ErrResult)
          ELSE LET w == walk(Unwrap(g), reader.prefix, reader.partial)
               IN reader' = IF w.done
                            THEN ReaderDone(reader.root, reader.key, w.result)
                            ELSE [reader EXCEPT !.pc = "fetch", !.hash = w.hash,
                                                !.prefix = w.prefix,
                                                !.partial = w.partial]
    /\ UNCHANGED <<facadeVars, managerVars, nodeVars, threads, historyVars>>

ReadNext == Next \/ ReaderStart \/ ReaderStep

SpecRead == Init /\ [][ReadNext]_vars

(***************************************************************************)
(* SimplifiedDualLayerMptManager (mpt_manager.rs).  A manager value m is   *)
(* the struct's fields together with the store they share.  Timestamps are *)
(* left out of the records.                                                *)
(***************************************************************************)
\* asset ids (the 32-byte id as a key of the main trie) and account ids
AssetIds == {<<0, 0>>, <<0, 1>>}
Owners == {"alice", "bob"}
\* the certificate ids whose key the key alphabet can spell
CertificateIds == {1, 2, 3}
CertificateStatuses == {"Active", "Expired"}

\* lower bounds of the SCALE encodings: the fixed-width fields alone
DataAssetLen == 256
RightTokenLen == 115

\* Encode / Decode of the two record types
DataAsset_encode(asset) == [data |-> asset, len |-> DataAssetLen]
\* a faulty variant: whatever is stored decodes
DataAsset_decode_any(data) == Some(data.data)
\* DataAsset::decode: Ok for the bytes of an encoded DataAsset, Err for
\* those of a RightToken
DataAsset_decode(data) ==
    IF "asset_id" \in DOMAIN data.data THEN Some(data.data) ELSE None
RightToken_encode(certificate) == [data |-> certificate, len |-> RightTokenLen]
\* RightToken::decode: Ok for the bytes of an encoded RightToken, Err for
\* those of a DataAsset
RightToken_decode(data) ==
    IF "certificate_id" \in DOMAIN data.data THEN Some(data.data) ELSE None

\* DataAsset::is_locked, DataAsset::is_active
\* nonce: u32, kept at its width as two 16-bit halves <<high, low>>
U32Zero == <<0, 0>>
U32Max == <<65535, 65535>>
\* a < b as u32
U32Less(a, b) == a[1] < b[1] \/ (a[1] = b[1] /\ a[2] < b[2])
\* n + 1 where the build does not check overflow: u32::wrapping_add(n, 1)
U32WrappingInc(n) ==
    IF n[2] < 65535 THEN <<n[1], n[2] + 1>>
    ELSE IF n[1] < 65535 THEN <<n[1] + 1, 0>>
    ELSE U32Zero

is_locked(asset) == asset.is_locked \/ asset.status = "Locked"
\* a faulty variant: the lock flag is not looked at
is_active_by_status(asset) == asset.status = "Active"
is_active(asset) == asset.status = "Active" /\ ~is_locked(asset)

\* RightToken::generate_token_id: "{parent}|{sequence}"
generate_token_id(parent_token_id, certificate_sequence) ==
    <<parent_token_id, "|", certificate_sequence>>

\* make_certificate_key: the id's little-endian bytes, spelled in Nibbles
make_certificate_key(certificate_id) ==
    <<certificate_id \div 2, certificate_id % 2>>
\* u32::from_le_bytes on a key
certificate_id_of_key(key) == 2 * key[1] + key[2]

Manager ==
    [kv |-> kv, main_asset_tree |-> root, certificate_trees |-> certificate_trees,
     current_main_root |-> current_main_root, certificate_roots |-> certificate_roots,
     token_id_to_asset_id |-> token_id_to_asset_id, next_token_id |-> next_token_id]

\* Result<T, _> of a manager call, with the manager it leaves behind
MgrOk(m, val) == [ok |-> TRUE, m |-> m, val |-> Some(val), wfail |-> FALSE]
MgrErr(m, wfail) == [ok |-> FALSE, m |-> m, val |-> None, wfail |-> wfail]
\* the call panicked: it returns nothing and leaves the manager m
MgrPanic(m) == [ok |-> FALSE, m |-> m, val |-> None, wfail |-> FALSE, panicked |-> TRUE]

get_main_root(m) == m.current_main_root

get_certificate_root(m, asset_id) ==
    IF asset_id \in DOMAIN m.certificate_roots THEN m.certificate_roots[asset_id]
    ELSE ZeroHash

get_asset_state_by_id(m, asset_id) ==
    LET g == get(m.kv, m.main_asset_tree, asset_id)
    IN IF g.ok /\ IsSome(g.val) THEN DataAsset_decode(Unwrap(g.val)) ELSE None

get_asset_state_by_token_id(m, token_id) ==
    IF token_id \in DOMAIN m.token_id_to_asset_id
    THEN get_asset_state_by_id(m, m.token_id_to_asset_id[token_id])
    ELSE None

initialize_certificate_tree(m, asset_id) ==
    [m EXCEPT !.certificate_trees = MapInsert(@, asset_id, ZeroHash),
              !.certificate_roots = MapInsert(@, asset_id, ZeroHash)]

\* the manager afterwards; the tree is its certificate_trees[asset_id]
get_or_create_certificate_tree(m, asset_id) ==
    IF asset_id \in DOMAIN m.certificate_trees THEN m
    ELSE initialize_certificate_tree(m, asset_id)

get_certificate_state(m, asset_id, certificate_id) ==
    LET m1 == get_or_create_certificate_tree(m, asset_id)
        g == get(m1.kv, m1.certificate_trees[asset_id],
                 make_certificate_key(certificate_id))
    IN [m |-> m1,
        val |-> IF g.ok /\ IsSome(g.val) THEN RightToken_decode(Unwrap(g.val)) ELSE None]

Range(f) == {f[i] : i \in DOMAIN f}

\* certificates.sort_by_key(|cert| cert.certificate_id)
RECURSIVE SortByCertificateId(_)
SortByCertificateId(certs) ==
    IF certs = {} THEN <<>>
    ELSE LET c == CHOOSE x \in certs :
                      \A y \in certs : x.certificate_id <= y.certificate_id
         IN <<c>> \o SortByCertificateId(certs \ {c})

\* Result<Vec<RightToken>, _>, always Ok: iter_all skips what it cannot read
get_asset_certificates(m, asset_id) ==
    LET m1 == get_or_create_certificate_tree(m, asset_id)
        all_certs_data == iter_all(m1.kv, m1.certificate_trees[asset_id])
    IN [m |-> m1,
        val |-> SortByCertificateId(
                    {Unwrap(RightToken_decode(all_certs_data[k])) :
                        k \in {x \in DOMAIN all_certs_data :
                                  IsSome(RightToken_decode(all_certs_data[x]))}})]

\* the assets of the main trie that decode
DecodedAssets(m) ==
    LET all_assets_data == iter_all(m.kv, m.main_asset_tree)
    IN {Unwrap(DataAsset_decode(all_assets_data[k])) :
           k \in {x \in DOMAIN all_assets_data :
                     IsSome(DataAsset_decode(all_assets_data[x]))}}

\* the manager after get_or_create_certificate_tree for each of asset_ids
RECURSIVE GetOrCreateAll(_, _)
GetOrCreateAll(m, asset_ids) ==
    IF asset_ids = {} THEN m
    ELSE LET id == CHOOSE x \in asset_ids : TRUE
         IN GetOrCreateAll(get_or_create_certificate_tree(m, id), asset_ids \ {id})

\* get_user_certificates: the (asset, certificate) pairs of the Vec, whose
\* order is the HashMap's
get_user_certificates(m, user) ==
    LET assets == DecodedAssets(m)
        m1 == GetOrCreateAll(m, {a.asset_id : a \in assets})
    IN [m |-> m1,
        val |-> UNION {{<<a, c>> : c \in {x \in Range(get_asset_certificates(m1, a.asset_id).val) :
                                             x.owner = user}} : a \in assets}]

\* get_user_assets: the assets of the Vec, whose order is the HashMap's
get_user_assets(m, user) == {a \in DecodedAssets(m) : a.owner = user}

Max(S) == CHOOSE x \in S : \A y \in S : y <= x

\* a faulty variant: every asset's next id is 1
get_next_certificate_id_first(m, asset_id) ==
    [m |-> get_or_create_certificate_tree(m, asset_id), val |-> 1]

\* get_next_certificate_id: max of the ids in the keys of the sub-trie, + 1
get_next_certificate_id(m, asset_id) ==
    LET m1 == get_or_create_certificate_tree(m, asset_id)
        all_certs == iter_all(m1.kv, m1.certificate_trees[asset_id])
    IN [m |-> m1,
        val |-> Max({0} \cup {certificate_id_of_key(k) : k \in DOMAIN all_certs}) + 1]

\* a faulty variant: the allocator hands out its value and does not advance
allocate_token_id_stuck(m) == [m |-> m, val |-> m.next_token_id]

allocate_token_id(m) ==
    [m |-> [m EXCEPT !.next_token_id = @ + 1], val |-> m.next_token_id]

\* a faulty variant: the new main root is not published
insert_asset_unpublished(m, asset_id, asset, fail) ==
    Bind(insert(m.kv, m.main_asset_tree, asset_id, DataAsset_encode(asset), fail),
         LAMBDA r :
         IF ~r.ok THEN MgrErr(m, r.wfail)
         ELSE MgrOk([m EXCEPT !.kv = r.kv, !.main_asset_tree = r.root], r.root))

insert_asset(m, asset_id, asset, fail) ==
    Bind(insert(m.kv, m.main_asset_tree, asset_id, DataAsset_encode(asset), fail),
         LAMBDA r :
         IF ~r.ok THEN MgrErr(m, r.wfail)
         ELSE MgrOk([m EXCEPT !.kv = r.kv, !.main_asset_tree = r.root,
                              !.current_main_root = r.root], r.root))

\* a faulty variant: the new sub-trie root is handed on, its nodes are not
\* in the store
insert_certificate_unwritten(m, asset_id, certificate, fail) ==
    Bind(get_or_create_certificate_tree(m, asset_id), LAMBDA m1 :
    Bind(insert(m1.kv, m1.certificate_trees[asset_id],
                make_certificate_key(certificate.certificate_id),
                RightToken_encode(certificate), fail),
         LAMBDA r :
         IF ~r.ok THEN MgrErr(m1, r.wfail)
         ELSE MgrOk([m1 EXCEPT !.certificate_trees[asset_id] = r.root,
                               !.certificate_roots = MapInsert(@, asset_id, r.root)],
                    r.root)))

insert_certificate(m, asset_id, certificate, fail) ==
    Bind(get_or_create_certificate_tree(m, asset_id), LAMBDA m1 :
    Bind(insert(m1.kv, m1.certificate_trees[asset_id],
                make_certificate_key(certificate.certificate_id),
                RightToken_encode(certificate), fail),
         LAMBDA r :
         IF ~r.ok THEN MgrErr(m1, r.wfail)
         ELSE MgrOk([m1 EXCEPT !.kv = r.kv, !.certificate_trees[asset_id] = r.root,
                               !.certificate_roots = MapInsert(@, asset_id, r.root)],
                    r.root)))

remove_certificate(m, asset_id, certificate_id, fail) ==
    Bind(get_or_create_certificate_tree(m, asset_id), LAMBDA m1 :
    Bind(remove(m1.kv, m1.certificate_trees[asset_id],
                make_certificate_key(certificate_id), fail),
         LAMBDA r :
         IF ~r.ok THEN MgrErr(m1, r.wfail)
         ELSE MgrOk([m1 EXCEPT !.kv = r.kv, !.certificate_trees[asset_id] = r.root,
                               !.certificate_roots = MapInsert(@, asset_id, r.root)],
                    r.root)))

\* a faulty variant: the record is written back with its old children_root
update_asset_certificate_root_stale(m, asset_id, cert_root, fail) ==
    Bind(get_asset_state_by_id(m, asset_id), LAMBDA a :
         IF ~IsSome(a) THEN MgrErr(m, FALSE)
         ELSE insert_asset(m, asset_id, Unwrap(a), fail))

update_asset_certificate_root(m, asset_id, cert_root, fail) ==
    Bind(get_asset_state_by_id(m, asset_id), LAMBDA a :
         IF ~IsSome(a) THEN MgrErr(m, FALSE)
         ELSE insert_asset(m, asset_id, [Unwrap(a) EXCEPT !.children_root = cert_root],
                           fail))

\* register_asset; `asset` carries the caller's fields, its asset_id given
\* or already derived by generate_asset_id
register_asset(m, asset, fail) ==
    Bind(allocate_token_id(m), LAMBDA t :
         LET registered == [asset EXCEPT !.token_id = t.val, !.status = "Active",
                                         !.children_root = ZeroHash]
             m1 == [t.m EXCEPT
                       !.token_id_to_asset_id = MapInsert(@, t.val, asset.asset_id)]
         IN insert_asset(initialize_certificate_tree(m1, asset.asset_id),
                         asset.asset_id, registered, fail))

\* a faulty variant: the certificate is made out to the issuer
issue_certificate_to_issuer(m, asset_id, holder, right_type, fail1, fail2) ==
    Bind(get_asset_state_by_id(m, asset_id), LAMBDA a :
    Bind(get_next_certificate_id(m, asset_id), LAMBDA n :
         IF ~IsSome(a) THEN MgrErr(m, FALSE)
         ELSE IF ~is_active(Unwrap(a)) THEN MgrErr(m, FALSE)
         ELSE
         Bind(insert_certificate(n.m, asset_id,
                  [certificate_id |-> n.val, right_type |-> right_type,
                   owner |-> Unwrap(a).owner, issuer |-> Unwrap(a).owner,
                   parent_asset_id |-> asset_id,
                   parent_asset_token_id |-> Unwrap(a).token_id,
                   status |-> "Active",
                   token_id |-> generate_token_id(Unwrap(a).token_id, n.val)],
                  fail1),
              LAMBDA c :
              IF ~c.ok THEN c
              ELSE Bind(update_asset_certificate_root(c.m, asset_id, Unwrap(c.val), fail2),
                        LAMBDA u :
                        IF ~u.ok THEN u
                        ELSE MgrOk(u.m, <<n.val, Unwrap(c.val)>>)))))

\* issue_certificate; fail1 is the outcome of the sub-trie write, fail2 of
\* the main-trie write
issue_certificate(m, asset_id, holder, right_type, fail1, fail2) ==
    Bind(get_asset_state_by_id(m, asset_id), LAMBDA a :
    Bind(get_next_certificate_id(m, asset_id), LAMBDA n :
         IF ~IsSome(a) THEN MgrErr(m, FALSE)
         ELSE IF ~is_active(Unwrap(a)) THEN MgrErr(m, FALSE)
         ELSE
         Bind(insert_certificate(n.m, asset_id,
                  [certificate_id |-> n.val, right_type |-> right_type,
                   owner |-> holder, issuer |-> Unwrap(a).owner,
                   parent_asset_id |-> asset_id,
                   parent_asset_token_id |-> Unwrap(a).token_id,
                   status |-> "Active",
                   token_id |-> generate_token_id(Unwrap(a).token_id, n.val)],
                  fail1),
              LAMBDA c :
              IF ~c.ok THEN c
              ELSE Bind(update_asset_certificate_root(c.m, asset_id, Unwrap(c.val), fail2),
                        LAMBDA u :
                        IF ~u.ok THEN u
                        ELSE MgrOk(u.m, <<n.val, Unwrap(c.val)>>)))))

\* transfer_asset; `asset.nonce += 1` on u32::MAX panics in a build with
\* overflow checks (the dev profile) and wraps in one without (release)
transfer_asset(m, asset_id, new_owner, current_owner, overflow_checks, fail) ==
    Bind(get_asset_state_by_id(m, asset_id), LAMBDA a :
         IF ~IsSome(a) THEN MgrErr(m, FALSE)
         ELSE IF Unwrap(a).owner # current_owner THEN MgrErr(m, FALSE)
         ELSE IF is_locked(Unwrap(a)) THEN MgrErr(m, FALSE)
         ELSE IF Unwrap(a).nonce = U32Max /\ overflow_checks THEN MgrPanic(m)
         ELSE insert_asset(m, asset_id,
                           [Unwrap(a) EXCEPT !.owner = new_owner,
                                             !.nonce = U32WrappingInc(@),
                                             !.transaction_count = @ + 1],
                           fail))

\* a faulty variant: the revoker is not checked
revoke_certificate_unchecked(m, asset_id, certificate_id, revoker, fail1, fail2) ==
    Bind(get_asset_state_by_id(m, asset_id), LAMBDA a :
    Bind(get_certificate_state(m, asset_id, certificate_id), LAMBDA cs :
         IF ~IsSome(a) THEN MgrErr(m, FALSE)
         ELSE IF ~IsSome(cs.val) THEN MgrErr(cs.m, FALSE)
         ELSE
         Bind(remove_certificate(cs.m, asset_id, certificate_id, fail1), LAMBDA rc :
              IF ~rc.ok THEN rc
              ELSE Bind(update_asset_certificate_root(rc.m, asset_id, Unwrap(rc.val),
                                                      fail2),
                        LAMBDA u :
                        IF ~u.ok THEN u
                        ELSE MgrOk(u.m, Unwrap(rc.val))))))

revoke_certificate(m, asset_id, certificate_id, revoker, fail1, fail2) ==
    Bind(get_asset_state_by_id(m, asset_id), LAMBDA a :
    Bind(get_certificate_state(m, asset_id, certificate_id), LAMBDA cs :
         IF ~IsSome(a) THEN MgrErr(m, FALSE)
         ELSE IF ~IsSome(cs.val) THEN MgrErr(cs.m, FALSE)
         ELSE IF Unwrap(a).owner # revoker /\ Unwrap(cs.val).owner # revoker
         THEN MgrErr(cs.m, FALSE)
         ELSE
         Bind(remove_certificate(cs.m, asset_id, certificate_id, fail1), LAMBDA rc :
              IF ~rc.ok THEN rc
              ELSE Bind(update_asset_certificate_root(rc.m, asset_id, Unwrap(rc.val),
                                                      fail2),
                        LAMBDA u :
                        IF ~u.ok THEN u
                        ELSE MgrOk(u.m, Unwrap(rc.val))))))

update_certificate_status(m, asset_id, certificate_id, new_status, fail1, fail2) ==
    Bind(get_certificate_state(m, asset_id, certificate_id), LAMBDA cs :
         IF ~IsSome(cs.val) THEN MgrErr(cs.m, FALSE)
         ELSE
         Bind(insert_certificate(cs.m, asset_id,
                                 [Unwrap(cs.val) EXCEPT !.status = new_status], fail1),
              LAMBDA c :
              IF ~c.ok THEN c
              ELSE Bind(update_asset_certificate_root(c.m, asset_id, Unwrap(c.val), fail2),
                        LAMBDA u :
                        IF ~u.ok THEN u
                        ELSE MgrOk(u.m, Unwrap(c.val)))))

\* SimplifiedDualLayerMptManager::from_root
from_root(store, r) ==
    [kv |-> store, main_asset_tree |-> r, certificate_trees |-> EmptyMap,
     current_main_root |-> r, certificate_roots |-> EmptyMap,
     token_id_to_asset_id |-> EmptyMap, next_token_id |-> 0]

(***************************************************************************)
(* The manager as a state machine, in sequential use: every public call is *)
(* one step.                                                               *)
(***************************************************************************)
\* the records callers register: owner and lock flag vary, and the nonce is
\* zero or, for an unlocked record of alice, the largest u32
NewAssets ==
    {[asset_id |-> id, token_id |-> 0, owner |-> o, is_locked |-> l,
      children_root |-> ZeroHash, nonce |-> U32Zero, transaction_count |-> 0,
      status |-> "Active"] : id \in AssetIds, o \in Owners, l \in BOOLEAN}
    \cup
    {[asset_id |-> id, token_id |-> 0, owner |-> "alice", is_locked |-> FALSE,
      children_root |-> ZeroHash, nonce |-> U32Max, transaction_count |-> 0,
      status |-> "Active"] : id \in AssetIds}

MgrInit ==
    /\ kv = EmptyMap
    /\ root = ZeroHash
    /\ returned = {}
    /\ last = [op |-> "new", ok |-> TRUE, wfail |-> FALSE, asset_id |-> <<>>,
               children_before |-> None]
    /\ ops = 0
    /\ ManagerInit
    /\ NodeIdle
    /\ sub_trie_roots = EmptyMap
    /\ issued_ids = EmptyMap

\* children_root of the asset's record in the main trie, if it has one
children_root_of(m, asset_id) ==
    Bind(get_asset_state_by_id(m, asset_id), LAMBDA a :
         IF IsSome(a) THEN Some(Unwrap(a).children_root) ELSE None)

\* the history after a step that leaves the manager m: the root of every
\* certificate tree of m joins the roots seen before
RecordRoots(h, m) ==
    [a \in DOMAIN h \cup DOMAIN m.certificate_trees |->
        (IF a \in DOMAIN h THEN h[a] ELSE {})
        \cup (IF a \in DOMAIN m.certificate_trees THEN {m.certificate_trees[a]}
              ELSE {})]

\* the history after issue_certificate on asset_id returned Ok((id, _)): id
\* joins the ids issued on the asset before
RecordIssued(h, asset_id, id) ==
    [a \in DOMAIN h \cup {asset_id} |->
        (IF a \in DOMAIN h THEN h[a] ELSE {}) \cup (IF a = asset_id THEN {id} ELSE {})]

\* a manager call on asset_id returned r; `last` keeps the children_root the
\* asset's record had before the call
MgrCall(op, asset_id, r) ==
    /\ ops < MaxManagerOps
    /\ ops' = ops + 1
    /\ kv' = r.m.kv
    /\ root' = r.m.main_asset_tree
    /\ certificate_trees' = r.m.certificate_trees
    /\ current_main_root' = r.m.current_main_root
    /\ certificate_roots' = r.m.certificate_roots
    /\ token_id_to_asset_id' = r.m.token_id_to_asset_id
    /\ next_token_id' = r.m.next_token_id
    /\ last' = [op |-> op, ok |-> r.ok, wfail |-> r.wfail, asset_id |-> asset_id,
                children_before |-> children_root_of(Manager, asset_id)]
    /\ sub_trie_roots' = RecordRoots(sub_trie_roots, r.m)
    /\ issued_ids' = IF op = "issue_certificate" /\ r.ok
                     THEN RecordIssued(issued_ids, asset_id, Unwrap(r.val)[1])
                     ELSE issued_ids
    /\ UNCHANGED <<returned, nodeVars, concVars>>

RegisterAsset ==
    \E asset \in NewAssets, fail \in BOOLEAN :
        MgrCall("register_asset", asset.asset_id, register_asset(Manager, asset, fail))

IssueCertificate ==
    \E asset_id \in AssetIds, holder \in Owners, fail1, fail2 \in BOOLEAN :
        /\ get_next_certificate_id(Manager, asset_id).val \in CertificateIds
        /\ MgrCall("issue_certificate", asset_id,
                   issue_certificate(Manager, asset_id, holder, "Usage", fail1, fail2))

TransferAsset ==
    \E asset_id \in AssetIds, new_owner, current_owner \in Owners,
       overflow_checks, fail \in BOOLEAN :
        MgrCall("transfer_asset", asset_id,
                transfer_asset(Manager, asset_id, new_owner, current_owner,
                               overflow_checks, fail))

RevokeCertificate ==
    \E asset_id \in AssetIds, certificate_id \in CertificateIds, revoker \in Owners,
       fail1, fail2 \in BOOLEAN :
        MgrCall("revoke_certificate", asset_id,
                revoke_certificate(Manager, asset_id, certificate_id, revoker,
                                   fail1, fail2))

UpdateCertificateStatus ==
    \E asset_id \in AssetIds, certificate_id \in CertificateIds,
       new_status \in CertificateStatuses, fail1, fail2 \in BOOLEAN :
        MgrCall("update_certificate_status", asset_id,
                update_certificate_status(Manager, asset_id, certificate_id,
                                          new_status, fail1, fail2))

\* the node restarts: a manager rebuilt over the same store from the latest
\* main root
FromRoot ==
        LET m == from_root(kv, current_main_root)
        IN /\ Manager # m
           /\ root' = m.main_asset_tree
           /\ certificate_trees' = m.certificate_trees
           /\ current_main_root' = m.current_main_root
           /\ certificate_roots' = m.certificate_roots
           /\ token_id_to_asset_id' = m.token_id_to_asset_id
           /\ next_token_id' = m.next_token_id
           /\ last' = [op |-> "from_root", ok |-> TRUE, wfail |-> FALSE,
                       asset_id |-> <<>>, children_before |-> None]
           /\ UNCHANGED <<kv, returned, ops, auxVars>>

MgrNext ==
    \/ RegisterAsset \/ IssueCertificate \/ TransferAsset
    \/ RevokeCertificate \/ UpdateCertificateStatus \/ FromRoot

SpecMgr == MgrInit /\ [][MgrNext]_vars

(***************************************************************************)
(* The manager shared between threads.  Every method takes &self and each  *)
(* helper holds its Mutex or RwLock for its own body only, so a public     *)
(* call is a sequence of critical sections and another thread's sections   *)
(* may run between two of them.  One step is one critical section; the     *)
(* threads contend for one asset, registered before they start.            *)
(***************************************************************************)
ConcAsset == <<0, 0>>
StartAsset ==
    [asset_id |-> ConcAsset, token_id |-> 0, owner |-> "alice", is_locked |-> FALSE,
     children_root |-> ZeroHash, nonce |-> U32Zero, transaction_count |-> 0,
     status |-> "Active"]

\* SimplifiedDualLayerMptManager::new as a value
NewManager ==
    [kv |-> EmptyMap, main_asset_tree |-> ZeroHash, certificate_trees |-> EmptyMap,
     current_main_root |-> ZeroHash, certificate_roots |-> EmptyMap,
     token_id_to_asset_id |-> EmptyMap, next_token_id |-> 0]

\* the managers the threads find: the asset registered, and perhaps one
\* certificate issued on it
ConcStarts ==
    LET m1 == register_asset(NewManager, StartAsset, FALSE).m
        m2 == issue_certificate(m1, ConcAsset, "bob", "Usage", FALSE, FALSE).m
    IN {m1, m2}

ConcInit ==
    /\ \E m \in ConcStarts :
          /\ sub_trie_roots = RecordRoots([a \in {ConcAsset} |-> {ZeroHash}], m)
          /\ issued_ids =
                [a \in {ConcAsset} |->
                    {c.certificate_id :
                        c \in Range(get_asset_certificates(m, ConcAsset).val)}]
          /\ kv = m.kv
          /\ root = m.main_asset_tree
          /\ certificate_trees = m.certificate_trees
          /\ current_main_root = m.current_main_root
          /\ certificate_roots = m.certificate_roots
          /\ token_id_to_asset_id = m.token_id_to_asset_id
          /\ next_token_id = m.next_token_id
    /\ returned = {}
    /\ last = [op |-> "new", ok |-> TRUE, wfail |-> FALSE, asset_id |-> <<>>,
               children_before |-> None]
    /\ ops = 0
    /\ NodeIdle

\* thread t leaves a critical section: the manager is m, its own state th
ThreadStep(t, m, th) ==
    /\ kv' = m.kv
    /\ root' = m.main_asset_tree
    /\ certificate_trees' = m.certificate_trees
    /\ current_main_root' = m.current_main_root
    /\ certificate_roots' = m.certificate_roots
    /\ token_id_to_asset_id' = m.token_id_to_asset_id
    /\ next_token_id' = m.next_token_id
    /\ threads' = [threads EXCEPT ![t] = th]
    /\ sub_trie_roots' = RecordRoots(sub_trie_roots, m)
    /\ issued_ids' = IF th.pc = "done" /\ th.op = "issue_certificate" /\ th.ok
                     THEN RecordIssued(issued_ids, ConcAsset, th.arg.certificate_id)
                     ELSE issued_ids
    /\ UNCHANGED <<returned, last, ops, nodeVars, reader>>

\* the call of thread th returns
ThreadDone(th, ok) == [pc |-> "done", op |-> th.op, arg |-> th.arg, ok |-> ok]

\* issue_certificate up to its is_active check
BeginIssue(t) ==
    /\ threads[t].pc = "idle"
    /\ \E holder \in Owners :
          LET th == [pc |-> "next_id", op |-> "issue_certificate",
                     arg |-> [holder |-> holder]]
              a == get_asset_state_by_id(Manager, ConcAsset)
          IN ThreadStep(t, Manager,
                        IF ~IsSome(a) THEN ThreadDone(th, FALSE)
                        ELSE IF ~is_active(Unwrap(a)) THEN ThreadDone(th, FALSE)
                        ELSE [th EXCEPT !.arg = [holder |-> holder,
                                                 asset |-> Unwrap(a)]])

\* get_next_certificate_id, and the certificate built from it
NextCertificateId(t) ==
    /\ threads[t].pc = "next_id"
    /\ LET th == threads[t]
           n == get_next_certificate_id(Manager, ConcAsset)
       IN /\ n.val \in CertificateIds
          /\ ThreadStep(t, n.m,
                 [pc |-> "insert_certificate", op |-> th.op,
                  arg |-> [holder |-> th.arg.holder, asset |-> th.arg.asset,
                           certificate_id |-> n.val],
                  certificate |->
                      [certificate_id |-> n.val, right_type |-> "Usage",
                       owner |-> th.arg.holder, issuer |-> th.arg.asset.owner,
                       parent_asset_id |-> ConcAsset,
                       parent_asset_token_id |-> th.arg.asset.token_id,
                       status |-> "Active",
                       token_id |-> generate_token_id(th.arg.asset.token_id, n.val)]])

\* transfer_asset up to its insert_asset
BeginTransfer(t) ==
    /\ threads[t].pc = "idle"
    /\ \E new_owner, current_owner \in Owners, overflow_checks \in BOOLEAN :
          LET th == [pc |-> "insert_asset", op |-> "transfer_asset",
                     arg |-> [new_owner |-> new_owner, current_owner |-> current_owner]]
              a == get_asset_state_by_id(Manager, ConcAsset)
          IN ThreadStep(t, Manager,
                 IF ~IsSome(a) THEN ThreadDone(th, FALSE)
                 ELSE IF Unwrap(a).owner # current_owner THEN ThreadDone(th, FALSE)
                 ELSE IF is_locked(Unwrap(a)) THEN ThreadDone(th, FALSE)
                 ELSE IF Unwrap(a).nonce = U32Max /\ overflow_checks
                 THEN [pc |-> "panicked", op |-> th.op, arg |-> th.arg]
                 ELSE [pc |-> th.pc, op |-> th.op, arg |-> th.arg,
                       asset |-> [Unwrap(a) EXCEPT !.owner = new_owner,
                                                   !.nonce = U32WrappingInc(@),
                                                   !.transaction_count = @ + 1]])

\* revoke_certificate: its read of the asset
BeginRevoke(t) ==
    /\ threads[t].pc = "idle"
    /\ \E certificate_id \in CertificateIds, revoker \in Owners :
          LET th == [pc |-> "check_certificate", op |-> "revoke_certificate",
                     arg |-> [certificate_id |-> certificate_id, revoker |-> revoker]]
              a == get_asset_state_by_id(Manager, ConcAsset)
          IN ThreadStep(t, Manager,
                 IF ~IsSome(a) THEN ThreadDone(th, FALSE)
                 ELSE [pc |-> th.pc, op |-> th.op, arg |-> th.arg,
                       asset |-> Unwrap(a)])

\* revoke_certificate: its read of the certificate and the permission check
CheckCertificate(t) ==
    /\ threads[t].pc = "check_certificate"
    /\ LET th == threads[t]
           cs == get_certificate_state(Manager, ConcAsset, th.arg.certificate_id)
       IN ThreadStep(t, cs.m,
              IF ~IsSome(cs.val) THEN ThreadDone(th, FALSE)
              ELSE IF th.asset.owner # th.arg.revoker
                      /\ Unwrap(cs.val).owner # th.arg.revoker
              THEN ThreadDone(th, FALSE)
              ELSE [pc |-> "remove_certificate", op |-> th.op, arg |-> th.arg])

\* update_certificate_status up to its insert_certificate
BeginUpdateStatus(t) ==
    /\ threads[t].pc = "idle"
    /\ \E certificate_id \in CertificateIds, new_status \in CertificateStatuses :
          LET th == [pc |-> "insert_certificate", op |-> "update_certificate_status",
                     arg |-> [certificate_id |-> certificate_id,
                              new_status |-> new_status]]
              cs == get_certificate_state(Manager, ConcAsset, certificate_id)
          IN ThreadStep(t, cs.m,
                 IF ~IsSome(cs.val) THEN ThreadDone(th, FALSE)
                 ELSE [pc |-> th.pc, op |-> th.op, arg |-> th.arg,
                       certificate |-> [Unwrap(cs.val) EXCEPT !.status = new_status]])

\* insert_certificate or remove_certificate: the child-trie write
WriteCertificate(t) ==
    /\ threads[t].pc \in {"insert_certificate", "remove_certificate"}
    /\ LET th == threads[t]
           c == IF th.pc = "insert_certificate"
                THEN insert_certificate(Manager, ConcAsset, th.certificate, FALSE)
                ELSE remove_certificate(Manager, ConcAsset, th.arg.certificate_id,
                                        FALSE)
       IN ThreadStep(t, c.m,
              IF ~c.ok THEN ThreadDone(th, FALSE)
              ELSE [pc |-> "read_asset", op |-> th.op, arg |-> th.arg,
                    new_cert_root |-> Unwrap(c.val)])

\* update_asset_certificate_root: its read of the record
ReadAsset(t) ==
    /\ threads[t].pc = "read_asset"
    /\ LET th == threads[t]
           a == get_asset_state_by_id(Manager, ConcAsset)
       IN ThreadStep(t, Manager,
              IF ~IsSome(a) THEN ThreadDone(th, FALSE)
              ELSE [pc |-> "insert_asset", op |-> th.op, arg |-> th.arg,
                    new_cert_root |-> th.new_cert_root,
                    asset |-> [Unwrap(a) EXCEPT !.children_root = th.new_cert_root]])

\* insert_asset of the record the thread holds: the parent write, after
\* which the call returns
WriteAsset(t) ==
    /\ threads[t].pc = "insert_asset"
    /\ LET th == threads[t]
           u == insert_asset(Manager, th.asset.asset_id, th.asset, FALSE)
       IN ThreadStep(t, u.m, ThreadDone(th, u.ok))

ConcNext ==
    \E t \in ThreadIds :
        \/ BeginIssue(t) \/ NextCertificateId(t) \/ BeginTransfer(t)
        \/ BeginRevoke(t) \/ CheckCertificate(t) \/ BeginUpdateStatus(t)
        \/ WriteCertificate(t) \/ ReadAsset(t) \/ WriteAsset(t)

SpecConc == ConcInit /\ [][ConcNext]_vars

(***************************************************************************)
(* issue_certificate and revoke_certificate alone, in sequential use, on a *)
(* manager that has its assets registered                                  *)
(***************************************************************************)
\* the managers the calls start on: one asset registered, or two
CertStarts ==
    LET m1 == register_asset(NewManager, StartAsset, FALSE).m
        m2 == register_asset(m1, [StartAsset EXCEPT !.asset_id = <<0, 1>>,
                                                   !.owner = "bob"], FALSE).m
    IN {m1, m2}

CertInit ==
    /\ \E m \in CertStarts :
          /\ sub_trie_roots = RecordRoots(EmptyMap, m)
          /\ kv = m.kv
          /\ root = m.main_asset_tree
          /\ certificate_trees = m.certificate_trees
          /\ current_main_root = m.current_main_root
          /\ certificate_roots = m.certificate_roots
          /\ token_id_to_asset_id = m.token_id_to_asset_id
          /\ next_token_id = m.next_token_id
    /\ issued_ids = EmptyMap
    /\ returned = {}
    /\ last = [op |-> "new", ok |-> TRUE, wfail |-> FALSE, asset_id |-> <<>>,
               children_before |-> None]
    /\ ops = 0
    /\ NodeIdle

CertNext == IssueCertificate \/ RevokeCertificate

SpecCert == CertInit /\ [][CertNext]_vars

(***************************************************************************)
(* The locks of the manager.  Each call is the sequence of lock and unlock *)
(* operations its code performs; a guard is released where it goes out of  *)
(* scope, and on an early return every guard held is dropped.  A step is   *)
(* one acquisition or one release.                                         *)
(***************************************************************************)
\* the calls the threads make in all
MaxCalls == 2

\* the Mutex and RwLock fields of SimplifiedDualLayerMptManager, and the
\* Mutex around the certificate tree of an asset
ManagerLock(name) == [name |-> name, of |-> <<>>]
TreeLock(asset_id) == [name |-> "certificate_tree", of |-> asset_id]

Lock(l) == [i |-> "lock", l |-> l]
Read(l) == [i |-> "read", l |-> l]
Write(l) == [i |-> "write", l |-> l]
Unlock(l) == [i |-> "unlock", l |-> l]
\* a guard taken and dropped with nothing locked in between
Section(acquire) == <<acquire, Unlock(acquire.l)>>

\* get_asset_state_by_id, get_user_assets
get_asset_state_by_id_locks == Section(Lock(ManagerLock("main_asset_tree")))

\* initialize_certificate_tree
initialize_certificate_tree_locks ==
    Section(Write(ManagerLock("certificate_trees")))
        \o Section(Write(ManagerLock("certificate_roots")))

\* get_or_create_certificate_tree: the tree is cached, or is created first
get_or_create_certificate_tree_locks(cached) ==
    IF cached THEN Section(Read(ManagerLock("certificate_trees")))
    ELSE Section(Read(ManagerLock("certificate_trees")))
            \o initialize_certificate_tree_locks
            \o Section(Read(ManagerLock("certificate_trees")))

\* insert_asset: current_main_root is written under the main tree's mutex
insert_asset_locks ==
    <<Lock(ManagerLock("main_asset_tree")), Write(ManagerLock("current_main_root")),
      Unlock(ManagerLock("current_main_root")), Unlock(ManagerLock("main_asset_tree"))>>

\* update_asset_certificate_root
update_asset_certificate_root_locks == get_asset_state_by_id_locks \o insert_asset_locks

\* a faulty variant: the tree's mutex is held until the record is updated
insert_certificate_locks_held(asset_id, cached) ==
    get_or_create_certificate_tree_locks(cached)
        \o <<Lock(TreeLock(asset_id))>>
        \o Section(Write(ManagerLock("certificate_roots")))
        \o update_asset_certificate_root_locks
        \o <<Unlock(TreeLock(asset_id))>>

\* insert_certificate, remove_certificate: certificate_roots is written
\* under the tree's mutex
insert_certificate_locks(asset_id, cached) ==
    get_or_create_certificate_tree_locks(cached)
        \o <<Lock(TreeLock(asset_id)), Write(ManagerLock("certificate_roots")),
             Unlock(ManagerLock("certificate_roots")), Unlock(TreeLock(asset_id))>>

\* get_certificate_state, get_asset_certificates, get_next_certificate_id
read_certificate_tree_locks(asset_id, cached) ==
    get_or_create_certificate_tree_locks(cached) \o Section(Lock(TreeLock(asset_id)))

RECURSIVE get_user_certificates_loop(_, _)
\* the loop of get_user_certificates over the assets of the main tree
get_user_certificates_loop(assets, cached) ==
    IF assets = <<>> THEN <<>>
    ELSE read_certificate_tree_locks(Head(assets), cached)
            \o get_user_certificates_loop(Tail(assets), cached)

\* the assets the main tree may hold, in the order the scan meets them
AssetScans == {<<>>} \cup {<<a>> : a \in AssetIds}
                  \cup {s \in AssetIds \X AssetIds : s[1] # s[2]}

\* the public calls of the manager on asset_id, as lock programs
LockPrograms(asset_id) ==
    {[op |-> "register_asset",
      prog |-> Section(Write(ManagerLock("next_token_id")))
                  \o Section(Write(ManagerLock("token_id_to_asset_id")))
                  \o initialize_certificate_tree_locks \o insert_asset_locks],
     [op |-> "transfer_asset",
      prog |-> get_asset_state_by_id_locks \o insert_asset_locks],
     [op |-> "get_asset_state_by_token_id",
      prog |-> Section(Read(ManagerLock("token_id_to_asset_id")))
                  \o get_asset_state_by_id_locks],
     [op |-> "get_main_root",
      prog |-> Section(Read(ManagerLock("current_main_root")))],
     [op |-> "get_certificate_root",
      prog |-> Section(Read(ManagerLock("certificate_roots")))]}
    \cup
    {[op |-> "issue_certificate",
      prog |-> get_asset_state_by_id_locks
                  \o read_certificate_tree_locks(asset_id, cached)
                  \o insert_certificate_locks(asset_id, TRUE)
                  \o update_asset_certificate_root_locks] : cached \in BOOLEAN}
    \cup
    {[op |-> "revoke_certificate",
      prog |-> get_asset_state_by_id_locks
                  \o read_certificate_tree_locks(asset_id, cached)
                  \o insert_certificate_locks(asset_id, TRUE)
                  \o update_asset_certificate_root_locks] : cached \in BOOLEAN}
    \cup
    {[op |-> "update_certificate_status",
      prog |-> read_certificate_tree_locks(asset_id, cached)
                  \o insert_certificate_locks(asset_id, TRUE)
                  \o update_asset_certificate_root_locks] : cached \in BOOLEAN}
    \cup
    {[op |-> "get_user_certificates",
      prog |-> <<Lock(ManagerLock("main_asset_tree"))>>
                  \o get_user_certificates_loop(assets, cached)
                  \o <<Unlock(ManagerLock("main_asset_tree"))>>]
        : assets \in AssetScans, cached \in BOOLEAN}

\* the locks thread t holds, and those the other threads hold
HeldBy(t) == IF threads[t].pc = "run" THEN threads[t].held ELSE {}
HeldByOthers(t) == UNION {HeldBy(u) : u \in ThreadIds \ {t}}

\* Mutex::lock and RwLock::write need the lock free, RwLock::read needs it
\* free of a writer
Grantable(t, ins) ==
    IF ins.i = "read"
    THEN \A h \in HeldByOthers(t) \cup HeldBy(t) : h.l = ins.l => h.i = "read"
    ELSE \A h \in HeldByOthers(t) \cup HeldBy(t) : h.l # ins.l

LockInit ==
    /\ MgrInit
    /\ threads = [t \in ThreadIds |-> IdleThread]

LockStep(t, th, calls) ==
    /\ threads' = [threads EXCEPT ![t] = th]
    /\ ops' = calls
    /\ UNCHANGED <<kv, root, returned, last, managerVars, nodeVars, reader, historyVars>>

\* a thread enters a public call
BeginCall(t) ==
    /\ threads[t].pc = "idle"
    /\ ops < MaxCalls
    /\ \E asset_id \in AssetIds : \E p \in LockPrograms(asset_id) :
          LockStep(t, [pc |-> "run", op |-> p.op, prog |-> p.prog, held |-> {}],
                   ops + 1)

\* lock(), read() or write() returns its guard
Acquire(t) ==
    /\ threads[t].pc = "run"
    /\ threads[t].prog # <<>>
    /\ Head(threads[t].prog).i # "unlock"
    /\ Grantable(t, Head(threads[t].prog))
    /\ LockStep(t, [threads[t] EXCEPT !.prog = Tail(@),
                                      !.held = @ \cup {Head(threads[t].prog)}], ops)

\* a guard goes out of scope
Release(t) ==
    /\ threads[t].pc = "run"
    /\ threads[t].prog # <<>>
    /\ Head(threads[t].prog).i = "unlock"
    /\ LockStep(t, [threads[t] EXCEPT
                       !.prog = Tail(@),
                       !.held = {h \in @ : h.l # Head(threads[t].prog).l}], ops)

\* the call returns: at its end, or early with an error, its guards dropped
Return(t) ==
    /\ threads[t].pc = "run"
    /\ threads[t].prog = <<>>
    /\ LockStep(t, IdleThread, ops)

EarlyReturn(t) ==
    /\ threads[t].pc = "run"
    /\ threads[t].prog # <<>>
    /\ LockStep(t, IdleThread, ops)

Progress(t) == Acquire(t) \/ Release(t) \/ Return(t)

LockNext ==
    \E t \in ThreadIds :
        BeginCall(t) \/ Acquire(t) \/ Release(t) \/ Return(t) \/ EarlyReturn(t)

\* a thread that can take its next step is scheduled in the end
SpecLock ==
    LockInit /\ [][LockNext]_vars /\ \A t \in ThreadIds : WF_vars(Progress(t))

(***************************************************************************)
(* Concurrent register_asset calls on a new manager, one step per lock     *)
(* scope: allocate_token_id, the token index, the two maps of              *)
(* initialize_certificate_tree, insert_asset.                              *)
(***************************************************************************)
\* register_asset: allocate_token_id and the fields set before any write
BeginRegister(t) ==
    /\ threads[t].pc = "idle"
    /\ \E asset \in NewAssets :
          LET a == allocate_token_id(Manager)
          IN ThreadStep(t, a.m,
                 [pc |-> "index_token", op |-> "register_asset",
                  arg |-> [asset_id |-> asset.asset_id, token_id |-> a.val],
                  asset |-> [asset EXCEPT !.token_id = a.val, !.status = "Active",
                                          !.children_root = ZeroHash]])

\* register_asset: token_id_to_asset_id.write().insert(token_id, asset_id)
IndexToken(t) ==
    /\ threads[t].pc = "index_token"
    /\ LET th == threads[t]
       IN ThreadStep(t, [Manager EXCEPT !.token_id_to_asset_id =
                                 MapInsert(@, th.asset.token_id, th.asset.asset_id)],
                     [th EXCEPT !.pc = "init_tree"])

\* initialize_certificate_tree: certificate_trees.write().insert
InitCertificateTree(t) ==
    /\ threads[t].pc = "init_tree"
    /\ LET th == threads[t]
       IN ThreadStep(t, [Manager EXCEPT !.certificate_trees =
                                 MapInsert(@, th.asset.asset_id, ZeroHash)],
                     [th EXCEPT !.pc = "init_root"])

\* initialize_certificate_tree: certificate_roots.write().insert
InitCertificateRoot(t) ==
    /\ threads[t].pc = "init_root"
    /\ LET th == threads[t]
       IN ThreadStep(t, [Manager EXCEPT !.certificate_roots =
                                 MapInsert(@, th.asset.asset_id, ZeroHash)],
                     [th EXCEPT !.pc = "insert_asset"])

RegNext ==
    \E t \in ThreadIds :
        \/ BeginRegister(t) \/ IndexToken(t) \/ InitCertificateTree(t)
        \/ InitCertificateRoot(t) \/ WriteAsset(t)

SpecReg == MgrInit /\ [][RegNext]_vars

(***************************************************************************)
(* The node stores by themselves (kvdb_hashdb.rs): a KvdbHashDB value is   *)
(* its store and cache, a ChangeCollector value its store, pending changes *)
(* and history mode.  `fail` is the outcome of the store's write.          *)
(***************************************************************************)
\* delete of one key in a write transaction
KvDelete(store, real_key) == MapRemove(store, real_key)

KvdbHashDB == [kv |-> kv, cache |-> hashdb_cache]
\* KvdbHashDB::new
KvdbHashDB_new(store) == [kv |-> store, cache |-> EmptyMap]

\* KvdbHashDB::emplace: a failed write is logged and the call returns
KvdbHashDB_emplace(db, key, prefix, value, fail) ==
    Bind(make_prefixed_key(prefix, key), LAMBDA real_key :
         IF fail THEN db
         ELSE [kv |-> KvWrite(db.kv, {[key |-> real_key, value |-> value]}),
               cache |-> MapInsert(db.cache, real_key, value)])

\* KvdbHashDB::insert
KvdbHashDB_insert(db, prefix, value, fail) ==
    [db |-> KvdbHashDB_emplace(db, Hash(value), prefix, value, fail), hash |-> Hash(value)]

\* KvdbHashDB::remove: the cache entry goes first, a failed delete is logged
KvdbHashDB_remove(db, key, prefix, fail) ==
    Bind(make_prefixed_key(prefix, key), LAMBDA real_key :
         [kv |-> IF fail THEN db.kv ELSE KvDelete(db.kv, real_key),
          cache |-> MapRemove(db.cache, real_key)])

Collector == [kv |-> kv, changes |-> changes, preserve_history |-> preserve_history]
\* ChangeCollector::new_with_history_mode and ChangeCollector::new
new_with_history_mode(store, preserve) ==
    [kv |-> store, changes |-> EmptyMap, preserve_history |-> preserve]
ChangeCollector_new(store) == new_with_history_mode(store, TRUE)

\* ChangeCollector::get on a collector value
ChangeCollector_get(c, key, prefix) == CollectorGet(c.changes, c.kv, key, prefix)

\* a faulty variant: the node is also put in the store
ChangeCollector_emplace_through(c, key, prefix, value) ==
    [c EXCEPT !.changes = MapInsert(@, make_prefixed_key(prefix, key), Some(value)),
              !.kv = KvWrite(@, {[key |-> make_prefixed_key(prefix, key), value |-> value]})]

\* ChangeCollector::emplace
ChangeCollector_emplace(c, key, prefix, value) ==
    [c EXCEPT !.changes = MapInsert(@, make_prefixed_key(prefix, key), Some(value))]

\* ChangeCollector::insert
ChangeCollector_insert(c, prefix, value) ==
    [c |-> ChangeCollector_emplace(c, Hash(value), prefix, value), hash |-> Hash(value)]

\* ChangeCollector::remove
ChangeCollector_remove(c, key, prefix) ==
    [c EXCEPT !.changes = MapInsert(@, make_prefixed_key(prefix, key), None)]

\* ChangeCollector::apply_changes on a collector value (&self: the pending
\* map is not touched)
ChangeCollector_apply_changes(c, fail) ==
    Bind(apply_changes(c.changes, c.kv, c.preserve_history, fail), LAMBDA a :
         [ok |-> a.ok, wfail |-> a.wfail, c |-> [c EXCEPT !.kv = a.kv]])

RECURSIVE EmplaceAll(_, _, _)
\* for (hash, (value, rc)) in memdb.drain() { hashdb.emplace(hash, (&[], None), value) }
EmplaceAll(db, memdb, failing) ==
    IF memdb = {} THEN db
    ELSE LET e == CHOOSE x \in memdb : TRUE
         IN EmplaceAll(KvdbHashDB_emplace(db, e.hash, EMPTY_PREFIX, e.value, e \in failing),
                       memdb \ {e}, failing)

\* AssetTrie::batch_insert of asset_trie.rs: an empty tree is built in a
\* MemoryDB and written node by node through KvdbHashDB::emplace (`failing`
\* are the nodes whose write fails), a non-empty one goes through a
\* ChangeCollector
asset_trie_batch_insert(store, r, items, failing, fail) ==
    Bind(commit(InsertAll(store, TRUE, NewSession, items)), LAMBDA n :
    Bind(commit(InsertAll(store, FALSE, ExistingSession(r), items)), LAMBDA c :
    Bind(apply_changes(CollectedChanges(c), store, TRUE, fail), LAMBDA a :
         IF items = <<>> THEN CallOk(r, store, {}, "noop")
         ELSE IF r = ZeroHash
         THEN IF n.err THEN CallErr(r, store, FALSE)
              ELSE [CallOk(n.root,
                           EmplaceAll(KvdbHashDB_new(store), MemoryDB(n),
                                      failing \cap MemoryDB(n)).kv,
                           n.writes, "new_tree")
                       EXCEPT !.wfail = (failing \cap MemoryDB(n) # {})]
         ELSE IF ~IsSome(ChangeCollector_get(ChangeCollector_new(store), r, EMPTY_PREFIX))
         THEN CallErr(r, store, FALSE)
         ELSE IF c.err THEN CallErr(r, store, FALSE)
         ELSE IF ~a.ok THEN CallErr(r, store, a.wfail)
         ELSE CallOk(c.root, a.kv, c.writes, "collector"))))

(***************************************************************************)
(* The node stores as a state machine: one KvdbHashDB and one              *)
(* ChangeCollector over the physical store, and an asset_trie.rs facade    *)
(***************************************************************************)
\* node bytes, their hashes and the prefixes they are stored under
NodeBytes == {Leaf(<<0, 0>>, LargeValue), Leaf(<<0, 1>>, LargeValue)}
NodeHashes == {Hash(b) : b \in NodeBytes}
Prefixes == {EMPTY_PREFIX, <<0>>}

\* the store a run starts on: empty, or holding a node an earlier run wrote
InitialStores ==
    {EmptyMap,
     KvWrite(EmptyMap, {[key |-> make_prefixed_key(EMPTY_PREFIX, Hash(b)), value |-> b]
                           : b \in {Leaf(<<0, 0>>, LargeValue)}})}

NodeInit ==
    /\ kv \in InitialStores
    /\ root = ZeroHash
    /\ returned = {}
    /\ last = [op |-> "new", ok |-> TRUE, wfail |-> FALSE, key |-> <<>>]
    /\ ops = 0
    /\ ManagerInit
    /\ hashdb_cache = EmptyMap
    /\ changes = EmptyMap
    /\ preserve_history \in BOOLEAN
    /\ reader = [pc |-> "idle"]
    /\ threads = [t \in ThreadIds |-> IdleThread]
    /\ sub_trie_roots = EmptyMap
    /\ issued_ids = EmptyMap

\* a call on the KvdbHashDB returned, leaving db
HashDBCall(op, wfail, real_key, db) ==
    /\ ops < MaxNodeOps
    /\ ops' = ops + 1
    /\ kv' = db.kv
    /\ hashdb_cache' = db.cache
    /\ last' = [op |-> op, ok |-> TRUE, wfail |-> wfail, key |-> real_key]
    /\ UNCHANGED <<root, returned, managerVars, changes, preserve_history, concVars,
                 historyVars>>

\* a call on the ChangeCollector returned, leaving c
CollectorCall(op, ok, wfail, real_key, c) ==
    /\ ops < MaxNodeOps
    /\ ops' = ops + 1
    /\ kv' = c.kv
    /\ changes' = c.changes
    /\ preserve_history' = c.preserve_history
    /\ last' = [op |-> op, ok |-> ok, wfail |-> wfail, key |-> real_key]
    /\ UNCHANGED <<root, returned, managerVars, hashdb_cache, concVars, historyVars>>

HashDBEmplace ==
    \E key \in NodeHashes, prefix \in Prefixes, value \in NodeBytes, fail \in BOOLEAN :
        HashDBCall("hashdb_emplace", fail, make_prefixed_key(prefix, key),
                   KvdbHashDB_emplace(KvdbHashDB, key, prefix, value, fail))

HashDBInsert ==
    \E prefix \in Prefixes, value \in NodeBytes, fail \in BOOLEAN :
        HashDBCall("hashdb_insert", fail, make_prefixed_key(prefix, Hash(value)),
                   KvdbHashDB_insert(KvdbHashDB, prefix, value, fail).db)

HashDBRemove ==
    \E key \in NodeHashes, prefix \in Prefixes, fail \in BOOLEAN :
        HashDBCall("hashdb_remove", fail, make_prefixed_key(prefix, key),
                   KvdbHashDB_remove(KvdbHashDB, key, prefix, fail))

CollectorEmplace ==
    \E key \in NodeHashes, prefix \in Prefixes, value \in NodeBytes :
        CollectorCall("collector_emplace", TRUE, FALSE, make_prefixed_key(prefix, key),
                      ChangeCollector_emplace(Collector, key, prefix, value))

CollectorInsert ==
    \E prefix \in Prefixes, value \in NodeBytes :
        CollectorCall("collector_insert", TRUE, FALSE,
                      make_prefixed_key(prefix, Hash(value)),
                      ChangeCollector_insert(Collector, prefix, value).c)

CollectorRemove ==
    \E key \in NodeHashes, prefix \in Prefixes :
        CollectorCall("collector_remove", TRUE, FALSE, make_prefixed_key(prefix, key),
                      ChangeCollector_remove(Collector, key, prefix))

ApplyChanges ==
    \E fail \in BOOLEAN :
        LET a == ChangeCollector_apply_changes(Collector, fail)
        IN CollectorCall("apply_changes", a.ok, a.wfail, <<>>, a.c)

\* the collector is dropped and another one made over the same store
CollectorNew ==
    \E preserve \in BOOLEAN :
        /\ changes # EmptyMap \/ preserve # preserve_history
        /\ CollectorCall("collector_new", TRUE, FALSE, <<>>,
                         new_with_history_mode(kv, preserve))

\* AssetTrie::batch_insert (asset_trie.rs) on the facade over the store
AssetTrieBatchInsert ==
    \E items \in ItemLists :
        \E failing \in SUBSET MemoryDB(commit(InsertAll(kv, TRUE, NewSession, items))),
           fail \in BOOLEAN :
            LET r == asset_trie_batch_insert(kv, root, items, failing, fail)
            IN /\ ops < MaxNodeOps
               /\ ops' = ops + 1
               /\ kv' = r.kv
               /\ root' = r.root
               /\ last' = [op |-> "batch_insert", ok |-> r.ok, wfail |-> r.wfail,
                           key |-> <<>>]
               /\ UNCHANGED <<returned, managerVars, auxVars>>

NodeNext ==
    \/ HashDBEmplace \/ HashDBInsert \/ HashDBRemove
    \/ CollectorEmplace \/ CollectorInsert \/ CollectorRemove
    \/ ApplyChanges \/ CollectorNew \/ AssetTrieBatchInsert

SpecNode == NodeInit /\ [][NodeNext]_vars

(***************************************************************************)
(* What a root commits to: the key/value mapping of the trie whose root    *)
(* node hashes to it, read off the digests alone (no store involved)       *)
(***************************************************************************)
RECURSIVE CommittedPairs(_, _)
CommittedPairs(node, prefix) ==
    IF node.t = "leaf" THEN {<<prefix \o node.partial, node.value>>}
    ELSE IF node.t = "branch"
    THEN UNION {
            LET c == node.children[i]
                child_prefix == prefix \o node.partial \o <<i>>
            IN IF c.c = "none" THEN {}
               ELSE IF c.c = "inline" THEN CommittedPairs(c.node, child_prefix)
               ELSE CommittedPairs(c.h.digest, child_prefix)
            : i \in Nibbles }
    ELSE {}

CommittedMap(r) == MapOfPairs(CommittedPairs(r.digest, EMPTY_PREFIX))
CommittedValue(r, k) ==
    IF k \in DOMAIN CommittedMap(r) THEN Some(CommittedMap(r)[k]) ELSE None

View(store, r) == [k \in Keys |-> get(store, r, k)]
MutatingOps == {"insert", "remove", "batch_insert", "batch_remove", "batch_update"}

RECURSIVE LastValue(_, _)
\* the value the last item naming k gives it
LastValue(items, k) ==
    IF items[Len(items)][1] = k THEN items[Len(items)][2]
    ELSE LastValue(SubSeq(items, 1, Len(items) - 1), k)


(***************************************************************************)
(* Claims                                                                  *)
(***************************************************************************)

\* C1. Round trip: in every reachable facade state, when insert(k, v) or
\* batch_insert(items) returns Ok, get(k) then returns exactly the (last)
\* value written for every key k the call named.
C1_RoundTrip ==
    /\ \A items \in ItemLists, fail \in BOOLEAN :
          LET r == batch_insert(kv, root, items, fail)
          IN r.ok => \A i \in DOMAIN items :
                        get(r.kv, r.root, items[i][1])
                            = OkResult(Some(LastValue(items, items[i][1])))
    /\ \A k \in Keys, v \in Values, fail \in BOOLEAN :
          LET r == insert(kv, root, k, v, fail)
          IN r.ok => get(r.kv, r.root, k) = OkResult(Some(v))

\* C2. History preservation: every root R returned by a successful mutating
\* call keeps answering get(R, k) with the value of the mapping R stands
\* for, whatever calls were made on the store since.
C2_HistoryPreserved ==
    \A r \in returned, k \in Keys :
        get(kv, r, k) = OkResult(CommittedValue(r, k))

\* C3. Deletion completeness: in every reachable facade state, when
\* remove(k) or batch_remove(keys) returns Ok, get returns Ok(None) for
\* every key the call named.
C3_DeletionComplete ==
    /\ \A keys \in KeyLists, fail \in BOOLEAN :
          LET r == batch_remove(kv, root, keys, fail)
          IN r.ok => \A i \in DOMAIN keys : get(r.kv, r.root, keys[i]) = OkResult(None)
    /\ \A k \in Keys, fail \in BOOLEAN :
          LET r == remove(kv, root, k, fail)
          IN r.ok => get(r.kv, r.root, k) = OkResult(None)

\* a batch_remove took keys out of a trie through the ChangeCollector and
\* left a readable, non-empty trie behind
C3_Witness ==
    /\ last.op = "batch_remove" /\ last.ok /\ last.changed
    /\ last.path = "collector"
    /\ \E k \in Keys : get(kv, root, k) = OkResult(None)
    /\ \E k \in Keys : get(kv, root, k).ok /\ IsSome(get(kv, root, k).val)

\* C4. The facade's root is the all-zero sentinel if and only if the mapping
\* it stands for holds no key.
C4_ZeroRootIffEmpty ==
    (root = ZeroHash) <=> (DOMAIN CommittedMap(root) = {})

\* C6. After a successful mutating call the facade's root is the zero
\* sentinel or the hash of a node that KvdbHashDB finds in the store.
C6_RootRetrievable ==
    (last.op \in MutatingOps /\ last.ok) =>
        (root = ZeroHash \/ HashDBContains(EmptyMap, kv, root, EMPTY_PREFIX))

\* C5. Incremental/rebuild equivalence: for a non-empty trie and any inserts
\* and deletes (a key may be in both), the root, and so the mapping, that
\* incremental_update produces on its ChangeCollector path is the one
\* fallback_update produces from the same starting state.
C5_IncrementalEqualsRebuild ==
    \A a \in UpdateArgs :
        LET inc == incremental_update(kv, root, a[1], a[2], FALSE)
            fb == fallback_update(kv, root, a[1], a[2], FALSE)
        IN (~is_empty_root(root) /\ inc.path = "collector" /\ fb.ok) =>
              /\ inc.root = fb.root
              /\ CommittedMap(inc.root) = CommittedMap(fb.root)

\* the keys a list of items names
ItemKeys(items) == {items[i][1] : i \in DOMAIN items}

\* every node a successful call produced is in the store on return
Flushed(r) == r.ok => \A w \in r.pending : KvGet(r.kv, w.key) = Some(w.value)

\* C7. Dual-layer linkage: after issue_certificate, revoke_certificate or
\* update_certificate_status returns Ok for asset A, children_root in A's
\* main-trie record equals the root of A's certificate sub-trie and equals
\* get_certificate_root(A); after transfer_asset returns Ok, children_root is
\* what it was before the call.
C7_DualLayerLinkage ==
    /\ (last.ok /\ last.op \in {"issue_certificate", "revoke_certificate",
                                "update_certificate_status"}) =>
          /\ last.asset_id \in DOMAIN certificate_trees
          /\ children_root_of(Manager, last.asset_id)
                 = Some(certificate_trees[last.asset_id])
          /\ children_root_of(Manager, last.asset_id)
                 = Some(get_certificate_root(Manager, last.asset_id))
    /\ (last.ok /\ last.op = "transfer_asset") =>
          children_root_of(Manager, last.asset_id) = last.children_before

\* the last certificate of an asset was revoked: the record had a non-zero
\* children_root before the call and the sub-trie is back at the zero root
C7_Witness ==
    /\ last.op = "revoke_certificate" /\ last.ok
    /\ last.children_before # Some(ZeroHash)
    /\ get_certificate_root(Manager, last.asset_id) = ZeroHash

\* C10. A failed store write leaves the in-memory roots alone: a call during
\* which the store's transaction write fails returns Err, and the main
\* trie's root, current_main_root and every get_certificate_root keep the
\* values they had before the call.
C10_WriteFailureKeepsRoots ==
    [][last'.wfail =>
          /\ ~last'.ok
          /\ root' = root
          /\ current_main_root' = current_main_root
          /\ \A a \in AssetIds :
                (IF a \in DOMAIN certificate_roots' THEN certificate_roots'[a] ELSE ZeroHash)
                    = get_certificate_root(Manager, a)]_vars

\* C11. A failed write inside KvdbHashDB::emplace (called directly, through
\* insert, or by the facade's batch_insert) aborts the calling mutation: the
\* call returns Err, the facade's root stays where it was, and the failed
\* write leaves nothing in the adapter's cache that the store does not hold.
C11_EmplaceFailureAborts ==
    [][(last'.wfail /\ last'.op \in {"hashdb_emplace", "hashdb_insert", "batch_insert"}) =>
          /\ ~last'.ok
          /\ root' = root
          /\ \A k \in DOMAIN hashdb_cache' :
                \/ k \in DOMAIN hashdb_cache /\ hashdb_cache'[k] = hashdb_cache[k]
                \/ KvGet(kv', k) = Some(hashdb_cache'[k])]_vars

\* a call that failed without a failed store write left root and store alone
Aborted(r) == (~r.ok /\ ~r.wfail) => (r.root = root /\ r.kv = kv /\ r.pending = {})

\* C12. All-or-nothing batches: in every reachable facade state, when the
\* trie algorithm fails on an item of a batch (the call returns Err and no
\* store write failed), the facade's root is unchanged and the store holds
\* no node of the batch's earlier items.
C12_BatchAllOrNothing ==
    /\ \A items \in ItemLists, fail \in BOOLEAN :
          Aborted(batch_insert(kv, root, items, fail))
    /\ \A keys \in KeyLists, fail \in BOOLEAN :
          Aborted(batch_remove(kv, root, keys, fail))
    /\ \A a \in UpdateArgs, fail \in BOOLEAN :
          Aborted(batch_update(kv, root, a[1], a[2], fail))

\* a batch_insert failed in the trie algorithm on a trie whose root is in
\* the store, and some two-item batch fails on its second item after its
\* first produced nodes
C12_Witness ==
    /\ last.op = "batch_insert" /\ ~last.ok /\ ~last.wfail
    /\ HashDBContains(EmptyMap, kv, root, EMPTY_PREFIX)
    /\ \E items \in ItemLists :
          /\ Len(items) = 2
          /\ ~batch_insert(kv, root, items, FALSE).ok
          /\ LET first == commit(CollectorSession(kv, root, <<items[1]>>, <<>>))
             IN ~first.err /\ first.writes # {}

\* C13. When apply_changes fails, the store and the pending-change map are
\* exactly as before the call, and a second apply_changes applies the same
\* set as the first would have.
C13_ApplyFailureLeavesAll ==
    [][(last'.op = "apply_changes" /\ ~last'.ok) =>
          /\ kv' = kv
          /\ changes' = changes
          /\ preserve_history' = preserve_history
          /\ ChangeCollector_apply_changes(
                 [kv |-> kv', changes |-> changes',
                  preserve_history |-> preserve_history'], FALSE)
               = ChangeCollector_apply_changes(Collector, FALSE)]_vars

\* apply_changes failed with a put pending that the store does not show
C13_Witness ==
    /\ last.op = "apply_changes" /\ ~last.ok /\ last.wfail
    /\ \E k \in DOMAIN changes : IsSome(changes[k]) /\ KvGet(kv, k) # changes[k]

\* C14. ChangeCollector::get answers from the pending-change map before the
\* store, last write wins per physical key: None after remove even when the
\* store holds the key, v after emplace or insert, the later of an emplace
\* and a remove decides, and a key with no pending entry is read from the
\* store.
C14_PendingBeforeStore ==
    \A key \in NodeHashes, prefix \in Prefixes, value \in NodeBytes :
        /\ ChangeCollector_get(ChangeCollector_remove(Collector, key, prefix),
                               key, prefix) = None
        /\ ChangeCollector_get(ChangeCollector_emplace(Collector, key, prefix, value),
                               key, prefix) = Some(value)
        /\ ChangeCollector_get(ChangeCollector_insert(Collector, prefix, value).c,
                               Hash(value), prefix) = Some(value)
        /\ ChangeCollector_get(
               ChangeCollector_emplace(ChangeCollector_remove(Collector, key, prefix),
                                       key, prefix, value), key, prefix) = Some(value)
        /\ ChangeCollector_get(
               ChangeCollector_remove(ChangeCollector_emplace(Collector, key, prefix, value),
                                      key, prefix), key, prefix) = None
        /\ make_prefixed_key(prefix, key) \notin DOMAIN changes =>
              ChangeCollector_get(Collector, key, prefix)
                  = KvGet(kv, make_prefixed_key(prefix, key))

\* a key the store holds was removed through the collector and reads None
C14_Witness ==
    /\ last.op = "collector_remove"
    /\ last.key \in DOMAIN kv
    /\ last.key \in DOMAIN changes /\ changes[last.key] = None
    /\ CollectorGet(changes, kv, last.key[2], last.key[1]) = None

\* C15. ChangeCollector::insert, emplace and remove, and dropping a collector
\* for a new one, leave the physical store as it is.
C15_CollectorWritesNothing ==
    [][last'.op \in {"collector_emplace", "collector_insert", "collector_remove",
                     "collector_new"} => kv' = kv]_vars

\* an emplace left a pending put that the store does not show
C15_Witness ==
    /\ last.op = "collector_emplace"
    /\ last.key \in DOMAIN changes /\ IsSome(changes[last.key])
    /\ KvGet(kv, last.key) = None

\* C16. A successful apply_changes puts every pending Some(bytes); with
\* preserve_history (the mode ChangeCollector::new gives) every key of the
\* store keeps its bytes unless a pending put overwrites it; without it every
\* pending None key is gone from the store.
C16_ApplySemantics ==
    LET r == ChangeCollector_apply_changes(Collector, FALSE)
        put == {k \in DOMAIN changes : IsSome(changes[k])}
    IN /\ r.ok
       /\ \A k \in put : KvGet(r.c.kv, k) = changes[k]
       /\ preserve_history =>
             \A k \in DOMAIN kv \ put : KvGet(r.c.kv, k) = Some(kv[k])
       /\ ~preserve_history =>
             \A k \in DOMAIN changes \ put : KvGet(r.c.kv, k) = None
       /\ ChangeCollector_new(kv).preserve_history

\* apply_changes succeeded in history mode over a pending delete of a key the
\* store holds, and the key is still there
C16_Witness ==
    /\ last.op = "apply_changes" /\ last.ok
    /\ preserve_history
    /\ \E k \in DOMAIN changes : changes[k] = None /\ k \in DOMAIN kv

\* C17. A reader that captured root R and resolves its nodes from the store
\* one read at a time, while writers run create_new_tree and
\* incremental_update and commit in between, finds every node and returns
\* the value R's mapping has for the key.
C17_ReaderSeesSnapshot ==
    reader.pc = "done" =>
        reader.result = OkResult(CommittedValue(reader.root, reader.key))

CertificateOps == {"issue_certificate", "revoke_certificate",
                   "update_certificate_status"}
AllReturnedOk == \A t \in ThreadIds : threads[t].pc = "done" /\ threads[t].ok

\* C18: under any interleaving of concurrent issue_certificate,
\* revoke_certificate and update_certificate_status calls on the same asset,
\* once all of them have returned Ok the children_root in the asset's
\* record equals the current root of the asset's certificate sub-trie.
C18_ConcurrentLinkage ==
    (AllReturnedOk /\ \A t \in ThreadIds : threads[t].op \in CertificateOps)
        => children_root_of(Manager, ConcAsset) = Some(certificate_trees[ConcAsset])

\* C19: no update is lost when transfer_asset interleaves with
\* issue_certificate or revoke_certificate on the same asset: once both have
\* returned Ok the record has the new owner, nonce and transaction_count
\* incremented, and children_root equal to the new certificate root.
C19_NoLostUpdate ==
    \A t, u \in ThreadIds :
        (/\ AllReturnedOk
         /\ threads[t].op = "transfer_asset"
         /\ threads[u].op \in {"issue_certificate", "revoke_certificate"})
        => Bind(get_asset_state_by_id(Manager, ConcAsset), LAMBDA a :
                /\ IsSome(a)
                /\ Unwrap(a).owner = threads[t].arg.new_owner
                /\ Unwrap(a).nonce = U32WrappingInc(StartAsset.nonce)
                /\ Unwrap(a).transaction_count = StartAsset.transaction_count + 1
                /\ Unwrap(a).children_root = certificate_trees[ConcAsset])

\* C20: when issue_certificate, revoke_certificate or
\* update_certificate_status stops or fails after the child-trie write and
\* before the parent write, the children_root in the asset's record is a
\* root the asset's certificate sub-trie had earlier (or zero), and every
\* node reachable from it is still in the store; it is never a hash that no
\* version of the sub-trie had.  Stated for every reachable state, the
\* states after a failed call and after a restart among them.
C20_StaleRootIsEarlierRoot ==
    \A asset_id \in AssetIds :
        Bind(children_root_of(Manager, asset_id), LAMBDA c :
             IsSome(c) =>
                \/ Unwrap(c) = ZeroHash
                \/ /\ asset_id \in DOMAIN sub_trie_roots
                   /\ Unwrap(c) \in sub_trie_roots[asset_id]
                   /\ \A k \in Keys :
                         get(kv, Unwrap(c), k) = OkResult(CommittedValue(Unwrap(c), k)))

\* a certificate call failed at the parent write: the sub-trie has moved
\* on, the record keeps the non-zero root it had before
C20_Witness ==
    /\ last.op \in CertificateOps
    /\ ~last.ok
    /\ last.wfail
    /\ last.asset_id \in DOMAIN certificate_trees
    /\ IsSome(last.children_before)
    /\ Unwrap(last.children_before) # ZeroHash
    /\ children_root_of(Manager, last.asset_id) = last.children_before
    /\ certificate_trees[last.asset_id] # Unwrap(last.children_before)

\* C21: a write-path failure in the manager mutates no index: when
\* register_asset returns Err, next_token_id has not advanced,
\* token_id_to_asset_id has no new entry, and no certificate tree or
\* certificate root entry was added for the asset.
C21_FailedRegisterKeepsIndexes ==
    [][(last'.op = "register_asset" /\ ~last'.ok)
          => /\ next_token_id' = next_token_id
             /\ token_id_to_asset_id' = token_id_to_asset_id
             /\ DOMAIN certificate_trees' = DOMAIN certificate_trees
             /\ DOMAIN certificate_roots' = DOMAIN certificate_roots]_vars

\* thread t has allocated its token id
Allocated(th) == th.pc # "idle" /\ th.op = "register_asset"

\* C22: token ids allocated by register_asset are distinct and strictly
\* increasing in allocation order, starting at 0 for a new manager, under
\* any interleaving of concurrent register_asset calls; after concurrent
\* registrations of distinct assets all of them are present in the main
\* trie.
C22_TokenIdsIncrease ==
    /\ [][\A t \in ThreadIds :
            (~Allocated(threads[t]) /\ Allocated(threads'[t]))
                => /\ threads'[t].arg.token_id = Cardinality({u \in ThreadIds :
                                                      Allocated(threads[u])})
                   /\ \A u \in ThreadIds :
                         Allocated(threads[u])
                             => threads[u].arg.token_id < threads'[t].arg.token_id]_vars
    /\ [](\A t, u \in ThreadIds :
            (t # u /\ Allocated(threads[t]) /\ Allocated(threads[u]))
                => threads[t].arg.token_id # threads[u].arg.token_id)
    /\ []((/\ AllReturnedOk
           /\ \A t \in ThreadIds : threads[t].op = "register_asset"
           /\ \A t, u \in ThreadIds :
                 t # u => threads[t].arg.asset_id # threads[u].arg.asset_id)
          => \A t \in ThreadIds :
                Bind(get_asset_state_by_id(Manager, threads[t].arg.asset_id), LAMBDA a :
                     /\ IsSome(a)
                     /\ Unwrap(a).token_id = threads[t].arg.token_id))

\* two registrations of distinct assets have both returned Ok
C22_Witness ==
    /\ AllReturnedOk
    /\ \A t \in ThreadIds : threads[t].op = "register_asset"
    /\ \A t, u \in ThreadIds : t # u => threads[t].arg.asset_id # threads[u].arg.asset_id

\* C23: after register_asset(record) returns Ok((asset_id, root)): root is
\* non-zero and equals get_main_root(); get_asset_state_by_id(asset_id)
\* returns the record with the caller's owner and lock flag, status Active,
\* children_root all-zero and the allocated token_id;
\* get_asset_state_by_token_id(token_id) returns the same record;
\* get_certificate_root(asset_id) is the zero root.  Stated for every
\* reachable manager and every record a caller may pass, whatever status,
\* token_id and children_root it carries.
C23_RegisterPostcondition ==
    \A asset \in NewAssets, s \in {"Active", "Locked"} :
        Bind(register_asset(Manager,
                            [asset EXCEPT !.status = s, !.token_id = next_token_id + 1,
                                          !.children_root = root],
                            FALSE),
             LAMBDA r :
             r.ok =>
                /\ Unwrap(r.val) # ZeroHash
                /\ Unwrap(r.val) = get_main_root(r.m)
                /\ get_asset_state_by_id(r.m, asset.asset_id)
                      = Some([asset EXCEPT !.status = "Active",
                                           !.token_id = next_token_id,
                                           !.children_root = ZeroHash])
                /\ get_asset_state_by_token_id(r.m, next_token_id)
                      = get_asset_state_by_id(r.m, asset.asset_id)
                /\ get_certificate_root(r.m, asset.asset_id) = ZeroHash)

\* a register_asset call has returned Ok on a manager that already held
\* another asset
C23_Witness ==
    /\ last.op = "register_asset"
    /\ last.ok
    /\ next_token_id > 1
    /\ \A asset_id \in AssetIds : IsSome(get_asset_state_by_id(Manager, asset_id))

\* C24: after issue_certificate(A, holder, right_type, valid_until) returns
\* Ok((id, cert_root)): cert_root is non-zero, and get_certificate_state(A,
\* id) returns a certificate with owner = holder, issuer = A's owner at
\* issue time, parent_asset_id = A, the given right_type and status Active;
\* get_asset_certificates(A) contains it and get_user_certificates(holder)
\* lists it.
C24_IssuePostcondition ==
    \A asset_id \in AssetIds, holder \in Owners, right_type \in {"Usage", "Access"} :
        get_next_certificate_id(Manager, asset_id).val \in CertificateIds =>
        Bind(issue_certificate(Manager, asset_id, holder, right_type, FALSE, FALSE),
             LAMBDA r :
             r.ok =>
             Bind(get_certificate_state(r.m, asset_id, Unwrap(r.val)[1]).val, LAMBDA c :
                /\ Unwrap(r.val)[2] # ZeroHash
                /\ IsSome(c)
                /\ Unwrap(c).certificate_id = Unwrap(r.val)[1]
                /\ Unwrap(c).owner = holder
                /\ Unwrap(c).issuer = Unwrap(get_asset_state_by_id(Manager, asset_id)).owner
                /\ Unwrap(c).parent_asset_id = asset_id
                /\ Unwrap(c).right_type = right_type
                /\ Unwrap(c).status = "Active"
                /\ Unwrap(c) \in Range(get_asset_certificates(r.m, asset_id).val)
                /\ \E p \in get_user_certificates(r.m, holder).val :
                      p[1].asset_id = asset_id /\ p[2] = Unwrap(c)))

\* issue_certificate has returned Ok on an asset that already had a
\* certificate
C24_Witness ==
    /\ last.op = "issue_certificate"
    /\ last.ok
    /\ Len(get_asset_certificates(Manager, last.asset_id).val) > 1

\* C25: issue_certificate returns an error when the asset is absent from
\* the main trie or is not active (status not Active, or locked), and in
\* that case changes nothing: the asset's certificate sub-trie, certificate
\* root, main root and stored record are as before the call.
C25_IssueRejected ==
    \A asset_id \in AssetIds, holder \in Owners, fail1, fail2 \in BOOLEAN :
        Bind(get_asset_state_by_id(Manager, asset_id), LAMBDA a :
             (\/ ~IsSome(a)
              \/ Unwrap(a).status # "Active"
              \/ Unwrap(a).is_locked) =>
             Bind(issue_certificate(Manager, asset_id, holder, "Usage", fail1, fail2),
                  LAMBDA r :
                  /\ ~r.ok
                  /\ r.m.kv = kv
                  /\ r.m.certificate_trees = certificate_trees
                  /\ get_certificate_root(r.m, asset_id)
                        = get_certificate_root(Manager, asset_id)
                  /\ get_main_root(r.m) = get_main_root(Manager)
                  /\ r.m.main_asset_tree = root
                  /\ get_asset_state_by_id(r.m, asset_id) = a))

\* issue_certificate was rejected for a registered asset that is locked and
\* has a certificate tree
C25_Witness ==
    /\ last.op = "issue_certificate"
    /\ ~last.ok
    /\ ~last.wfail
    /\ last.asset_id \in DOMAIN certificate_trees
    /\ Bind(get_asset_state_by_id(Manager, last.asset_id), LAMBDA a :
            IsSome(a) /\ Unwrap(a).is_locked)

\* the certificate tree a caller of get_or_create_certificate_tree is handed
TreeOf(m, asset_id) == get_or_create_certificate_tree(m, asset_id).certificate_trees[asset_id]

\* m1 has the store, the tries and the roots of the current manager
NoTrieOrRootChanged(m1) ==
    /\ m1.kv = kv
    /\ m1.main_asset_tree = root
    /\ get_main_root(m1) = get_main_root(Manager)
    /\ \A x \in AssetIds :
          /\ get_certificate_root(m1, x) = get_certificate_root(Manager, x)
          /\ TreeOf(m1, x) = TreeOf(Manager, x)

\* C26: revoke_certificate(A, id, revoker) succeeds only when A exists,
\* certificate id exists under A, and revoker is A's owner or the
\* certificate's owner; otherwise it returns an error and changes no trie or
\* root.  After it succeeds, get_certificate_state(A, id) returns None and
\* every other certificate of A is unchanged.
C26_RevokeContract ==
    \A asset_id \in AssetIds, certificate_id \in CertificateIds, revoker \in Owners,
       fail1, fail2 \in BOOLEAN :
        Bind(get_asset_state_by_id(Manager, asset_id), LAMBDA a :
        Bind(get_certificate_state(Manager, asset_id, certificate_id).val, LAMBDA c :
        Bind(revoke_certificate(Manager, asset_id, certificate_id, revoker, fail1, fail2),
             LAMBDA r :
             IF /\ IsSome(a)
                /\ IsSome(c)
                /\ (Unwrap(a).owner = revoker \/ Unwrap(c).owner = revoker)
             THEN r.ok =>
                     /\ get_certificate_state(r.m, asset_id, certificate_id).val = None
                     /\ \A other \in CertificateIds \ {certificate_id} :
                           get_certificate_state(r.m, asset_id, other).val
                               = get_certificate_state(Manager, asset_id, other).val
             ELSE ~r.ok /\ NoTrieOrRootChanged(r.m))))

\* an asset holds two certificates, and the holder of one of them, who does
\* not own the asset, revokes it
C26_Witness ==
    \E asset_id \in AssetIds, certificate_id \in CertificateIds, revoker \in Owners :
        /\ Len(get_asset_certificates(Manager, asset_id).val) = 2
        /\ Unwrap(get_asset_state_by_id(Manager, asset_id)).owner # revoker
        /\ revoke_certificate(Manager, asset_id, certificate_id, revoker, FALSE, FALSE).ok

\* nonce of the asset's record, zero when it has none
NonceOf(m, asset_id) ==
    Bind(get_asset_state_by_id(m, asset_id), LAMBDA a :
         IF IsSome(a) THEN Unwrap(a).nonce ELSE U32Zero)

\* b is exactly one greater than a, as u32 values
U32Next(a, b) ==
    \/ b[1] = a[1] /\ b[2] = a[2] + 1
    \/ b[1] = a[1] + 1 /\ a[2] = 65535 /\ b[2] = 0

\* C27: transfer_asset(A, new_owner, current_owner) succeeds only when A
\* exists, A's stored owner equals current_owner and A is not locked; on
\* success the stored record has owner = new_owner and nonce and
\* transaction_count each exactly one greater than before, with
\* children_root and A's certificates unchanged; on any rejection the record
\* and main root are unchanged.  Across any sequence of transfers the nonce
\* never decreases.
C27_TransferContract ==
    /\ [](\A asset_id \in AssetIds, new_owner, current_owner \in Owners,
             overflow_checks, fail \in BOOLEAN :
            Bind(get_asset_state_by_id(Manager, asset_id), LAMBDA a :
            Bind(transfer_asset(Manager, asset_id, new_owner, current_owner,
                                overflow_checks, fail),
                 LAMBDA r :
                 IF /\ IsSome(a)
                    /\ Unwrap(a).owner = current_owner
                    /\ ~Unwrap(a).is_locked
                    /\ Unwrap(a).status # "Locked"
                 THEN r.ok =>
                      Bind(get_asset_state_by_id(r.m, asset_id), LAMBDA b :
                         /\ IsSome(b)
                         /\ Unwrap(b).owner = new_owner
                         /\ U32Next(Unwrap(a).nonce, Unwrap(b).nonce)
                         /\ Unwrap(b).transaction_count = Unwrap(a).transaction_count + 1
                         /\ [Unwrap(b) EXCEPT !.owner = Unwrap(a).owner,
                                              !.nonce = Unwrap(a).nonce,
                                              !.transaction_count =
                                                  Unwrap(a).transaction_count]
                               = Unwrap(a)
                         /\ TreeOf(r.m, asset_id) = TreeOf(Manager, asset_id)
                         /\ \A id \in CertificateIds :
                               get_certificate_state(r.m, asset_id, id).val
                                   = get_certificate_state(Manager, asset_id, id).val)
                 ELSE /\ ~r.ok
                      /\ get_asset_state_by_id(r.m, asset_id) = a
                      /\ get_main_root(r.m) = get_main_root(Manager)
                      /\ r.m.main_asset_tree = root)))
    /\ [][last'.op = "transfer_asset"
             => ~U32Less(NonceOf(Manager', last'.asset_id),
                         NonceOf(Manager, last'.asset_id))]_vars

\* the certificates of the sub-trie with root r, by certificate id
CertificatesAt(store, r) ==
    [id \in CertificateIds |->
        Bind(get(store, r, make_certificate_key(id)), LAMBDA g :
             IF g.ok /\ IsSome(g.val) THEN RightToken_decode(Unwrap(g.val)) ELSE None)]

\* C28: a manager built with from_root(db, R), where R is the main root of
\* an earlier manager on the same store, restores that state:
\* get_asset_state_by_id returns the same record for every asset, and for
\* every asset A get_certificate_state / get_asset_certificates return the
\* certificates of the sub-trie whose root is A's stored children_root; a
\* following issue_certificate on A adds to those certificates instead of
\* starting from an empty sub-trie.
C28_FromRootRestores ==
    Bind(from_root(kv, get_main_root(Manager)), LAMBDA m :
         \A asset_id \in AssetIds :
            Bind(get_asset_state_by_id(Manager, asset_id), LAMBDA a :
                 /\ get_asset_state_by_id(m, asset_id) = a
                 /\ IsSome(a) =>
                    Bind(CertificatesAt(kv, Unwrap(a).children_root), LAMBDA stored :
                       /\ \A id \in CertificateIds :
                             get_certificate_state(m, asset_id, id).val = stored[id]
                       /\ Range(get_asset_certificates(m, asset_id).val)
                             = {Unwrap(stored[id]) :
                                   id \in {x \in CertificateIds : IsSome(stored[x])}}
                       /\ \A holder \in Owners :
                             Bind(issue_certificate(m, asset_id, holder, "Usage",
                                                    FALSE, FALSE),
                                  LAMBDA r :
                                  r.ok =>
                                     \A id \in CertificateIds :
                                        IsSome(stored[id]) =>
                                           get_certificate_state(r.m, asset_id, id).val
                                               = stored[id]))))

\* m1 shows what m shows: main root, certificate roots, token index,
\* allocator and store
SameObservable(m, m1) ==
    /\ get_main_root(m1) = get_main_root(m)
    /\ \A x \in AssetIds : get_certificate_root(m1, x) = get_certificate_root(m, x)
    /\ m1.token_id_to_asset_id = m.token_id_to_asset_id
    /\ m1.next_token_id = m.next_token_id
    /\ m1.kv = m.kv

\* managers opened over the store at the root of a certificate sub-trie:
\* what their main trie holds does not decode as an asset
OpenedAtCertificates ==
    {from_root(kv, a.children_root) :
        a \in {x \in DecodedAssets(Manager) : x.children_root # ZeroHash}}

\* C29: the manager's read queries (get_asset_state_by_id,
\* get_asset_state_by_token_id, get_certificate_state,
\* get_asset_certificates, get_user_assets, get_user_certificates) change no
\* observable state: get_main_root, get_certificate_root of every asset, the
\* token index, the allocator and the physical store are the same after as
\* before; a stored record that fails to decode is reported as not found
\* (None, or omitted from a list), never as an error or a panic.
C29_ReadsChangeNothing ==
    /\ \A m \in OpenedAtCertificates :
          /\ \A k \in Keys :
                IsSome(get(m.kv, m.main_asset_tree, k).val)
                    => get_asset_state_by_id(m, k) = None
          /\ \A user \in Owners :
                /\ get_user_assets(m, user) = {}
                /\ get_user_certificates(m, user).val = {}
    /\ \A m \in {Manager} \cup OpenedAtCertificates :
          \A asset_id \in AssetIds, user \in Owners :
             /\ \A id \in CertificateIds :
                   SameObservable(m, get_certificate_state(m, asset_id, id).m)
             /\ SameObservable(m, get_asset_certificates(m, asset_id).m)
             /\ SameObservable(m, get_user_certificates(m, user).m)

\* after a restart an asset with certificates has no certificate tree in
\* memory: a read creates one, and a manager opened at its children_root
\* reads records that are no assets
C29_Witness ==
    /\ last.op = "from_root"
    /\ \E a \in DecodedAssets(Manager) :
          /\ a.children_root # ZeroHash
          /\ a.asset_id \notin DOMAIN certificate_trees
          /\ \E k \in Keys :
                IsSome(get(kv, a.children_root, k).val)

\* C30: on an AssetTrie whose root is the zero sentinel, remove and
\* batch_remove return Ok with the unchanged zero root and write nothing to
\* the store, and get, contains and iter_all return None / false / empty
\* without reading the store (whatever the store holds, and whether or not
\* it would accept a write).
C30_EmptyTreeOperations ==
    is_empty_root(root) =>
        /\ \A fail \in BOOLEAN :
              /\ \A keys \in KeyLists :
                    LET r == batch_remove(kv, root, keys, fail)
                    IN r.ok /\ r.root = ZeroHash /\ r.kv = kv /\ r.pending = {}
              /\ \A k \in Keys :
                    LET r == remove(kv, root, k, fail)
                    IN r.ok /\ r.root = ZeroHash /\ r.kv = kv /\ r.pending = {}
        /\ \A store \in {kv, EmptyMap} :
              /\ \A k \in Keys :
                    /\ get(store, root, k) = OkResult(None)
                    /\ contains(store, root, k) = OkResult(FALSE)
              /\ iter_all(store, root) = EmptyMap

\* a remove that returned Ok on a facade at the zero root over a store that
\* holds the nodes of an earlier tree
C30_Witness ==
    /\ is_empty_root(root)
    /\ kv # EmptyMap
    /\ last.op \in {"remove", "batch_remove"}
    /\ last.ok
    /\ last.path = "noop"

\* the KvdbHashDB after emplace of the all-zero hash under some prefix, and
\* the one at hand
AfterZeroEmplace ==
    {KvdbHashDB} \cup
    {KvdbHashDB_emplace(KvdbHashDB, ZeroHash, prefix, value, FALSE) :
        prefix \in Prefixes, value \in NodeBytes}

\* C31: KvdbHashDB::get(hash, prefix) and contains(hash, prefix) return None /
\* false for the all-zero hash with any prefix, whatever the cache and the
\* store hold (even after emplace of the all-zero hash); for every other
\* hash, get after a successful emplace(hash, prefix, v) returns v and get
\* after remove(hash, prefix) returns None.
C31_ZeroHashAndRoundTrip ==
    /\ \A db \in AfterZeroEmplace, prefix \in Prefixes :
          /\ HashDBGet(db.cache, db.kv, ZeroHash, prefix) = None
          /\ ~HashDBContains(db.cache, db.kv, ZeroHash, prefix)
    /\ \A key \in NodeHashes, prefix \in Prefixes :
          /\ \A value \in NodeBytes :
                LET db == KvdbHashDB_emplace(KvdbHashDB, key, prefix, value, FALSE)
                IN HashDBGet(db.cache, db.kv, key, prefix) = Some(value)
          /\ \A fail \in BOOLEAN :
                LET db == KvdbHashDB_remove(KvdbHashDB, key, prefix, fail)
                IN HashDBGet(db.cache, db.kv, key, prefix) = None

\* the call's edits on a mapping, in the order the call applies them to the
\* trie: the inserts, then the deletes (mpt.rs 222-232)
EditsApplied(mapping, inserts, deletes) ==
    MapRemoveAll(MapInsertAll(mapping, inserts), deletes)

\* C32: a verification failure of the incremental path (root changed with no
\* write recorded, or new root not retrievable after apply_changes) is never
\* returned to the caller as an error when fallback_update succeeds: the call
\* returns Ok with the root rebuilt by the fallback, and that root's mapping
\* equals the pre-call mapping with the call's edits applied.
C32_FallbackInvisible ==
    ~is_empty_root(root) =>
        \A a \in UpdateArgs, fail \in BOOLEAN :
            LET r == incremental_update(kv, root, a[1], a[2], fail)
            IN r.path = "fallback" =>
                  /\ r.ok
                  /\ iter_all(r.kv, r.root)
                        = EditsApplied(iter_all(kv, root), a[1], a[2])

\* the nodes the trie algorithm produces when it builds a trie of items in a
\* MemoryDB, each with the (prefix, hash) pair the algorithm passes for it
BuiltNodes(items) == commit(InsertAll(EmptyMap, TRUE, NewSession, items)).writes

\* node w is found by both readers on store under the pair the trie
\* algorithm passes for it
FoundByReaders(store, w) ==
    /\ HashDBGet(EmptyMap, store, w.key[2], w.key[1]) = Some(w.value)
    /\ CollectorGet(EmptyMap, store, w.key[2], w.key[1]) = Some(w.value)

\* C33: key-format consistency between writer and reader: every node of a
\* trie built by create_new_tree or fallback_update is found by
\* KvdbHashDB::get and ChangeCollector::get under the physical key they
\* compute from the (hash, prefix) pair the trie algorithm passes for that
\* node, for the root and for every non-inlined descendant node; hence get
\* resolves every key of a freshly built trie.
C33_KeyFormatConsistent ==
    /\ \A items \in ItemLists :
          LET r == create_new_tree(kv, root, items, FALSE)
          IN (items # <<>> /\ r.ok) =>
                /\ \A w \in BuiltNodes(items) : FoundByReaders(r.kv, w)
                /\ \A i \in DOMAIN items : get(r.kv, r.root, items[i][1]).ok
    /\ \A a \in UpdateArgs :
          LET r == fallback_update(kv, root, a[1], a[2], FALSE)
              current_data ==
                  MapInsertAll(MapRemoveAll(iter_all(kv, root), a[2]), a[1])
          IN (r.ok /\ r.root # ZeroHash) =>
                /\ \A w \in BuiltNodes(MapItems(current_data)) :
                      FoundByReaders(r.kv, w)
                /\ \A k \in DOMAIN current_data : get(r.kv, r.root, k).ok

\* a delete-only call on the facade: remove, batch_remove, or batch_update
\* without inserts
DeleteOnlyCalls(keys, fail) ==
    {batch_remove(kv, root, keys, fail), batch_update(kv, root, <<>>, keys, fail)}
        \cup (IF Len(keys) = 1 THEN {remove(kv, root, keys[1], fail)} ELSE {})

\* C34: single-key fast path: when a delete-only call names exactly one key,
\* the trie at the current root holds exactly one entry and that entry's key
\* is the named key, the call sets the root to the zero sentinel without any
\* write or delete on the store; the fast path is taken in no other case (in
\* particular not when the trie holds other live entries), so it never
\* discards a live key.
C34_SingleKeyFastPath ==
    \A keys \in KeyLists, fail \in BOOLEAN :
        \A r \in DeleteOnlyCalls(keys, fail) :
            /\ (/\ Len(keys) = 1
                /\ DOMAIN CommittedMap(root) = {keys[1]})
                  => /\ r.path = "only_key"
                     /\ r.ok /\ r.root = ZeroHash /\ r.kv = kv /\ r.pending = {}
            /\ r.path = "only_key"
                  => /\ Len(keys) = 1
                     /\ DOMAIN CommittedMap(root) = {keys[1]}

\* the ids of the certificates the manager holds under asset_id
LiveCertificateIds(m, asset_id) ==
    {c.certificate_id : c \in Range(get_asset_certificates(m, asset_id).val)}

\* C35: in sequential use, issue_certificate on asset A returns the
\* certificate id 1 + (largest certificate id currently stored in A's
\* sub-trie), and 1 when the sub-trie is empty; the id is therefore different
\* from the id of every certificate currently live under A, and ids are
\* scoped per asset (the certificates of other assets do not count).
C35_NextCertificateId ==
    \A asset_id \in AssetIds, holder \in Owners, right_type \in {"Usage", "Access"},
       fail1, fail2 \in BOOLEAN :
        get_next_certificate_id(Manager, asset_id).val \in CertificateIds =>
        Bind(issue_certificate(Manager, asset_id, holder, right_type, fail1, fail2),
             LAMBDA r :
             r.ok =>
                /\ Unwrap(r.val)[1]
                      = Max({0} \cup LiveCertificateIds(Manager, asset_id)) + 1
                /\ Unwrap(r.val)[1] \notin LiveCertificateIds(Manager, asset_id)
                /\ LiveCertificateIds(Manager, asset_id) = {} => Unwrap(r.val)[1] = 1)

\* one asset holds certificate 1 and would be given id 2, while another
\* registered asset without certificates would be given id 1
C35_Witness ==
    \E a, b \in AssetIds :
        /\ a # b
        /\ LiveCertificateIds(Manager, a) = {1}
        /\ LiveCertificateIds(Manager, b) = {}
        /\ Bind(issue_certificate(Manager, a, "alice", "Usage", FALSE, FALSE), LAMBDA r :
                r.ok /\ Unwrap(r.val)[1] = 2)
        /\ Bind(issue_certificate(Manager, b, "alice", "Usage", FALSE, FALSE), LAMBDA r :
                r.ok /\ Unwrap(r.val)[1] = 1)

\* C36: under any interleaving of two concurrent issue_certificate calls on
\* the same asset that both return Ok, the two calls return different
\* certificate ids and both certificates are retrievable afterwards (neither
\* insert overwrites the other's certificate).
C36_ConcurrentIssueDistinct ==
    \A t, u \in ThreadIds :
        (/\ t # u
         /\ AllReturnedOk
         /\ threads[t].op = "issue_certificate"
         /\ threads[u].op = "issue_certificate")
        => /\ threads[t].arg.certificate_id # threads[u].arg.certificate_id
           /\ Bind(get_certificate_state(Manager, ConcAsset,
                                         threads[t].arg.certificate_id).val,
                   LAMBDA c : IsSome(c) /\ Unwrap(c).owner = threads[t].arg.holder)

\* C37: within one asset a certificate id is issued at most once over the
\* whole history: after any sequence of issue_certificate and
\* revoke_certificate calls, no issue_certificate returns an id that an
\* earlier issue_certificate on the same asset returned, also when the
\* certificate with the largest id has been revoked in between.
C37_CertificateIdIssuedOnce ==
    \A asset_id \in AssetIds, holder \in Owners, fail1, fail2 \in BOOLEAN :
        get_next_certificate_id(Manager, asset_id).val \in CertificateIds =>
        Bind(issue_certificate(Manager, asset_id, holder, "Usage", fail1, fail2),
             LAMBDA r :
             (r.ok /\ asset_id \in DOMAIN issued_ids)
                => Unwrap(r.val)[1] \notin issued_ids[asset_id])

\* C38: register_asset on an asset_id that is already registered does not
\* overwrite the existing record or reset its children_root, and does not
\* replace the asset's certificate sub-trie and certificate root with empty
\* ones; consequently each registered asset_id is the image of exactly one
\* token id in token_id_to_asset_id.
C38_RegisterKeepsExisting ==
    /\ \A asset \in NewAssets, fail \in BOOLEAN :
          IsSome(get_asset_state_by_id(Manager, asset.asset_id)) =>
          Bind(register_asset(Manager, asset, fail), LAMBDA r :
               /\ get_asset_state_by_id(r.m, asset.asset_id)
                     = get_asset_state_by_id(Manager, asset.asset_id)
               /\ TreeOf(r.m, asset.asset_id) = TreeOf(Manager, asset.asset_id)
               /\ get_certificate_root(r.m, asset.asset_id)
                     = get_certificate_root(Manager, asset.asset_id))
    /\ \A asset_id \in AssetIds :
          IsSome(get_asset_state_by_id(Manager, asset_id)) =>
             Cardinality({t \in DOMAIN token_id_to_asset_id :
                             token_id_to_asset_id[t] = asset_id}) = 1

\* thread t is blocked: its next step is an acquisition that cannot be
\* granted
Blocked(t) ==
    /\ threads[t].pc = "run"
    /\ threads[t].prog # <<>>
    /\ Head(threads[t].prog).i # "unlock"
    /\ ~Grantable(t, Head(threads[t].prog))

\* thread t waits for a lock that thread u holds
WaitsFor(t, u) ==
    /\ Blocked(t)
    /\ \E h \in HeldBy(u) : h.l = Head(threads[t].prog).l

\* C39: under any interleaving of concurrent manager operations every call
\* eventually returns: the locks taken are never waited for in a cycle, and
\* no thread tries to re-acquire a lock it already holds.
C39_EveryCallReturns ==
    /\ \A t \in ThreadIds : (threads[t].pc = "run") ~> (threads[t].pc = "idle")
    /\ [](\A t, u \in ThreadIds : ~(WaitsFor(t, u) /\ WaitsFor(u, t)))
    /\ [](\A t \in ThreadIds : ~WaitsFor(t, t))

\* one thread scans the certificates of an asset under the main tree's
\* mutex while the other waits for that mutex
C39_Witness ==
    \E t, u \in ThreadIds :
        /\ threads[t].pc = "run"
        /\ threads[t].op = "get_user_certificates"
        /\ TreeLock(ConcAsset) \in {h.l : h \in HeldBy(t)}
        /\ WaitsFor(u, t)
        /\ threads[u].op = "issue_certificate"

\* C8. Synchronous commit: in every reachable facade state, every node a
\* successful mutating call produced is in the physical store when the call
\* returns its root, so nothing is pending in the facade.
C8_SynchronousCommit ==
    /\ \A k \in Keys, v \in Values : Flushed(insert(kv, root, k, v, FALSE))
    /\ \A k \in Keys : Flushed(remove(kv, root, k, FALSE))
    /\ \A items \in ItemLists : Flushed(batch_insert(kv, root, items, FALSE))
    /\ \A keys \in KeyLists : Flushed(batch_remove(kv, root, keys, FALSE))
    /\ \A a \in UpdateArgs : Flushed(batch_update(kv, root, a[1], a[2], FALSE))

\* a batch_update went through the ChangeCollector, moved the root, and its
\* new root node is in the store
C8_Witness ==
    /\ last.op = "batch_update" /\ last.ok /\ last.changed
    /\ last.path = "collector"
    /\ HashDBContains(EmptyMap, kv, root, EMPTY_PREFIX)

\* keys outside `named` read after the call as they read before it
Framed(r, named) ==
    r.ok => \A k \in Keys \ named : get(r.kv, r.root, k) = get(kv, root, k)

\* C9. Frame: in every reachable facade state, a successful insert, remove,
\* batch_insert, batch_remove or batch_update leaves get unchanged for every
\* key the call did not name.
C9_Frame ==
    /\ \A k \in Keys, v \in Values : Framed(insert(kv, root, k, v, FALSE), {k})
    /\ \A k \in Keys : Framed(remove(kv, root, k, FALSE), {k})
    /\ \A items \in ItemLists :
          Framed(batch_insert(kv, root, items, FALSE), ItemKeys(items))
    /\ \A keys \in KeyLists : Framed(batch_remove(kv, root, keys, FALSE), Range(keys))
    /\ \A a \in UpdateArgs :
          Framed(batch_update(kv, root, a[1], a[2], FALSE), ItemKeys(a[1]) \cup Range(a[2]))

====
